---- MODULE Spec2Model ----
(***************************************************************************)
(* Model of the analysis core of ux-auditor-api: the session bucketizer    *)
(* (SessionPreprocessor.process with its markup flattener), the rage-click *)
(* heuristic (detect_rage_clicks), the motion detector                     *)
(* (detect_behavioral_anomalies) and the /analyze endpoint that chains     *)
(* them (analyze_session).                                                 *)
(*                                                                         *)
(* An rrweb event is a record [type, timestamp, data]; data is a record    *)
(* whose DOMAIN is the set of keys the payload carries, so a missing key   *)
(* is a missing field (dict.get falls back to its default).                *)
(* InsightEvent.id (a fresh uuid4 per object) is left out of the records.  *)
(***************************************************************************)
EXTENDS Integers, Sequences, FiniteSets, TLC

VARIABLES
    endpoint,       \* the operation under execution with these events
    events,         \* the input: request.events (List[RRWebEvent])
    pc,             \* position of the call in the code
    \* SessionPreprocessor.process
    consumed,       \* number of events the for loop has consumed
    start_time,     \* timestamp of the first event
    last_timestamp, \* timestamp of the event consumed last
    kinematics,     \* List[KinematicVector] (also the input of the motion detector)
    actions,        \* List[UserAction]
    dom_map,        \* Dict[int, str]: node id -> simplified markup
    session,        \* <<>> until process returns, then <<ProcessedSession>>
    \* detect_behavioral_anomalies
    valid_points,   \* the point of each retained pair
    features,       \* the feature of each retained pair
    flagged,        \* indices (0-based) the outlier model labels -1
    insights_ml,    \* the insights returned
    \* detect_rage_clicks
    clicks,         \* the filtered, sorted click list
    i,              \* the scan cursor (0-based, as in the code)
    insights,       \* the insights list being built / returned
    steps,          \* history: one record per iteration of the while loop
    \* analyze_session
    result,         \* <<>> until the endpoint returns, then <<the insight list>>
    \* the callers of the three functions
    previous,       \* <<>>, or <<the session an earlier call of process returned>>
    peer,           \* <<>>, or <<the locals of a suspended concurrent call>>
    \* worker_io: the queue worker, its broker and its object storage
    queue,          \* the messages ready at the broker, head first
    incoming,       \* <<>>, or <<the message delivered and not yet settled>>
    garage,         \* the bucket: object key -> session data
    handled         \* history: one record per run of _process_message

procVars == <<consumed, start_time, last_timestamp, kinematics, actions, dom_map, session>>
mlVars == <<valid_points, features, flagged, insights_ml>>
rageVars == <<clicks, i, insights, steps>>
callVars == <<previous, peer>>
workerVars == <<queue, incoming, garage, handled>>

vars == <<endpoint, events, pc, procVars, mlVars, rageVars, result, callVars, workerVars>>

-----------------------------------------------------------------------------
(* Bounds of the model *)

MaxRageEvents == 6
MaxFlagged == 2
MaxProcessEvents == 3
MaxAnalyzeEvents == 4
MaxPayloadEvents == 3
MaxVectors == 11
MaxConcurrentEvents == 2

-----------------------------------------------------------------------------
(* Generic helpers *)

\* dict.get(key, default)
Get(d, k, dflt) == IF k \in DOMAIN d THEN d[k] ELSE dflt

Has(d, k) == k \in DOMAIN d

SeqsUpTo(S, n) == UNION {[1..m -> S] : m \in 0..n}

Range(s) == {s[k] : k \in DOMAIN s}

\* list.sort(key=timestamp) / sorted(..., key=timestamp): stable, ascending.
RECURSIVE InsertByTimestamp(_, _)
InsertByTimestamp(sorted, e) ==
    IF sorted = <<>> THEN <<e>>
    ELSE IF sorted[Len(sorted)].timestamp <= e.timestamp
         THEN Append(sorted, e)
         ELSE Append(InsertByTimestamp(SubSeq(sorted, 1, Len(sorted) - 1), e),
                     sorted[Len(sorted)])

RECURSIVE SortByTimestamp(_)
SortByTimestamp(s) ==
    IF s = <<>> THEN <<>>
    ELSE InsertByTimestamp(SortByTimestamp(SubSeq(s, 1, Len(s) - 1)), s[Len(s)])

\* a call made once, with no other call in progress
SingleCall == previous = <<>> /\ peer = <<>>

\* no queue worker runs: nothing at the broker, nothing in the bucket
WorkerIdle == queue = <<>> /\ incoming = <<>> /\ garage = <<>> /\ handled = <<>>

-----------------------------------------------------------------------------
(* models/models.py *)

BoundingBox(top, left, width, height) ==
    [top |-> top, left |-> left, width |-> width, height |-> height]

InsightEvent(timestamp, type, severity, message, boundingBox, algorithm) ==
    [timestamp |-> timestamp, type |-> type, severity |-> severity,
     message |-> message, boundingBox |-> boundingBox, algorithm |-> algorithm]

-----------------------------------------------------------------------------
(* Strings: a Python str is a sequence of one-character strings, so that  *)
(* len(), slicing, strip() and lower() are computed as the code computes  *)
(* them.                                                                  *)

UpperCase == <<"A", "B", "C", "D", "E", "F", "G", "H", "I", "J", "K", "L", "M",
               "N", "O", "P", "Q", "R", "S", "T", "U", "V", "W", "X", "Y", "Z">>
LowerCase == <<"a", "b", "c", "d", "e", "f", "g", "h", "i", "j", "k", "l", "m",
               "n", "o", "p", "q", "r", "s", "t", "u", "v", "w", "x", "y", "z">>

\* str.lower()
LowerChar(c) ==
    IF \E k \in 1..26 : UpperCase[k] = c
    THEN LowerCase[CHOOSE k \in 1..26 : UpperCase[k] = c]
    ELSE c

Lower(str) == [k \in 1..Len(str) |-> LowerChar(str[k])]

Whitespace == {" ", "\t", "\n"}

\* str.strip()
RECURSIVE LStrip(_)
LStrip(str) ==
    IF str # <<>> /\ str[1] \in Whitespace THEN LStrip(Tail(str)) ELSE str

RECURSIVE RStrip(_)
RStrip(str) ==
    IF str # <<>> /\ str[Len(str)] \in Whitespace
    THEN RStrip(SubSeq(str, 1, Len(str) - 1))
    ELSE str

Strip(str) == RStrip(LStrip(str))

\* str[:k]
Prefix(str, k) == SubSeq(str, 1, IF Len(str) < k THEN Len(str) ELSE k)

Ellipsis == <<".", ".", ".">>

\* str(v) of a non-negative / negative int
RECURSIVE NatStr(_)
NatStr(v) ==
    LET d == <<"0", "1", "2", "3", "4", "5", "6", "7", "8", "9">>[(v % 10) + 1]
    IN  IF v < 10 THEN <<d>> ELSE Append(NatStr(v \div 10), d)

IntStr(v) == IF v < 0 THEN <<"-">> \o NatStr(-v) ELSE NatStr(v)

\* the text f"{value}" renders for the value of a missing key
NoneStr == <<"N", "o", "n", "e">>

-----------------------------------------------------------------------------
(* services/data_processor.py : SessionPreprocessor._flatten_dom_tree *)

IGNORED_TAGS ==
    { <<"s", "c", "r", "i", "p", "t">>,
      <<"s", "t", "y", "l", "e">>,
      <<"l", "i", "n", "k">>,
      <<"m", "e", "t", "a">>,
      <<"n", "o", "s", "c", "r", "i", "p", "t">> }

RELEVANT_ATTRS ==
    { <<"i", "d">>,
      <<"c", "l", "a", "s", "s">>,
      <<"n", "a", "m", "e">>,
      <<"t", "y", "p", "e">>,
      <<"a", "r", "i", "a", "-", "l", "a", "b", "e", "l">>,
      <<"p", "l", "a", "c", "e", "h", "o", "l", "d", "e", "r">>,
      <<"v", "a", "l", "u", "e">>,
      <<"h", "r", "e", "f">>,
      <<"r", "o", "l", "e">> }

ATTR_MAX_LEN == 50
ATTR_KEPT_LEN == 47
TEXT_MAX_LEN == 30

\* dom_map[node_id] = simplified_html
MapPut(m, k, v) == [x \in (DOMAIN m) \cup {k} |-> IF x = k THEN v ELSE m[x]]

\* lines 207-208
NodeTag(node) == Lower(Get(node, "tagName", <<>>))

\* an exclusion test on the tag name as written, not lower-cased
IsIgnoredCaseSensitive(node) == Get(node, "tagName", <<>>) \in IGNORED_TAGS

\* line 211
IsIgnored(node) == NodeTag(node) \in IGNORED_TAGS

\* lines 220-227: attributes is the dict in insertion order, a sequence of
\* <<key, value>> pairs whose values are strings
RECURSIVE AttrsStr(_)
AttrsStr(attributes) ==
    IF attributes = <<>> THEN <<>>
    ELSE LET k     == attributes[Len(attributes)][1]
             v     == attributes[Len(attributes)][2]
             v_str == IF Len(v) > ATTR_MAX_LEN THEN Prefix(v, ATTR_KEPT_LEN) \o Ellipsis ELSE v
             rest  == AttrsStr(SubSeq(attributes, 1, Len(attributes) - 1))
         IN  IF k \in RELEVANT_ATTRS
             THEN rest \o <<" ">> \o k \o <<"=", "\"">> \o v_str \o <<"\"">>
             ELSE rest

\* lines 230-236
RECURSIVE TextContent(_)
TextContent(children) ==
    IF children = <<>> THEN <<>>
    ELSE LET child    == children[Len(children)]
             rest     == TextContent(SubSeq(children, 1, Len(children) - 1))
             raw_text == Strip(Get(child, "textContent", <<>>))
         IN  IF Has(child, "type") /\ child.type = 3 /\ raw_text # <<>>
             THEN rest \o raw_text \o <<" ">>
             ELSE rest

\* lines 238-239
TruncateText(text_content) ==
    IF Len(text_content) > TEXT_MAX_LEN
    THEN Prefix(text_content, TEXT_MAX_LEN) \o Ellipsis
    ELSE text_content

\* lines 217-242
SimplifiedHtml(node) ==
    LET tag_name     == NodeTag(node)
        attrs_str    == AttrsStr(Get(node, "attributes", <<>>))
        text_content == TruncateText(TextContent(Get(node, "childNodes", <<>>)))
    IN  <<"<">> \o tag_name \o attrs_str \o <<">">> \o Strip(text_content)
            \o <<"<", "/">> \o tag_name \o <<">">>

\* line 216: a node is entered when it has a truthy id and a tag name
IsEntered(node) ==
    /\ Has(node, "id") /\ node.id # 0
    /\ NodeTag(node) # <<>>

\* lines 207-248: the map after the walk of node. The walk of the children
\* (lines 246-248) is FlattenChildren.
RECURSIVE FlattenDomTree(_, _)
RECURSIVE FlattenChildren(_, _)
FlattenDomTree(node, m) ==
    IF IsIgnored(node) THEN m
    ELSE LET m1 == IF IsEntered(node) THEN MapPut(m, node.id, SimplifiedHtml(node)) ELSE m
         IN  IF Has(node, "childNodes") THEN FlattenChildren(node.childNodes, m1) ELSE m1

FlattenChildren(children, m) ==
    IF children = <<>> THEN m
    ELSE FlattenChildren(Tail(children), FlattenDomTree(children[1], m))

-----------------------------------------------------------------------------
(* services/data_processor.py : SessionPreprocessor.process *)

\* Optional[...]: None is <<>>, a value v is <<v>>
None == <<>>
Some(v) == <<v>>

\* data.get(key): None when the key is missing
GetOpt(d, k) == IF k \in DOMAIN d THEN Some(d[k]) ELSE None

\* f"{value}" of an optional int
OptIntStr(o) == IF o = None THEN NoneStr ELSE IntStr(o[1])

TYPE_DOM_SNAPSHOT == 2
TYPE_INCREMENTAL == 3
TYPE_META == 4
SOURCE_MOUSE_MOVE == 1
SOURCE_MOUSE_INTERACTION == 2
SOURCE_INPUT == 5
INTERACTION_CLICK == 2
INPUT_MAX_LEN == 40

KinematicVector(timestamp, x, y) == [timestamp |-> timestamp, x |-> x, y |-> y]

UserAction(timestamp, action_type, target_id, details) ==
    [timestamp |-> timestamp, action_type |-> action_type,
     target_id |-> target_id, details |-> details]

ProcessedSession(initial_timestamp, total_duration, kin, acts, map) ==
    [initial_timestamp |-> initial_timestamp, total_duration |-> total_duration,
     kinematics |-> kin, actions |-> acts, dom_map |-> map]

\* a session that keeps the collections but not the zero timestamps
UnsetSession == ProcessedSession(-1, -1, <<>>, <<>>, <<>>)

\* line 66: the session of an empty stream (the collections take their defaults)
EmptySession == ProcessedSession(0, 0, <<>>, <<>>, <<>>)

\* the map of the snapshot alone, in place of the merged one
OnSnapshotReplace(data, map) ==
    IF Has(data, "node") THEN FlattenDomTree(data.node, <<>>) ELSE map

\* lines 101-104
OnSnapshot(data, map) ==
    IF Has(data, "node") THEN FlattenDomTree(data.node, map) ELSE map

\* the width looked at before the URL
OnMetaWidthFirst(data, delta_ts) ==
    IF Has(data, "width") /\ data.width # 0
    THEN <<UserAction(delta_ts, "resize", None,
                      Some(<<"V", "i", "e", "w", "p", "o", "r", "t", ":", " ">> \o IntStr(data.width) \o <<"x">>
                               \o OptIntStr(GetOpt(data, "height"))))>>
    ELSE IF Has(data, "href") /\ data.href # <<>>
         THEN <<UserAction(delta_ts, "navigation", None, Some(<<"U", "R", "L", ":", " ">> \o data.href))>>
         ELSE <<>>

\* lines 107-122: the actions a Meta event appends
OnMeta(data, delta_ts) ==
    IF Has(data, "href") /\ data.href # <<>>
    THEN <<UserAction(delta_ts, "navigation", None, Some(<<"U", "R", "L", ":", " ">> \o data.href))>>
    ELSE IF Has(data, "width") /\ data.width # 0
         THEN <<UserAction(delta_ts, "resize", None,
                           Some(<<"V", "i", "e", "w", "p", "o", "r", "t", ":", " ">> \o IntStr(data.width) \o <<"x">>
                                    \o OptIntStr(GetOpt(data, "height"))))>>
         ELSE <<>>

\* vectors that all carry the timestamp of their event
RECURSIVE OnPositionsNoOffset(_, _)
OnPositionsNoOffset(positions, delta_ts) ==
    IF positions = <<>> THEN <<>>
    ELSE LET pos  == positions[Len(positions)]
             rest == OnPositionsNoOffset(SubSeq(positions, 1, Len(positions) - 1), delta_ts)
         IN  IF Len(pos) >= 2 /\ pos[1] >= 0 /\ pos[2] >= 0
             THEN Append(rest, KinematicVector(delta_ts, pos[1], pos[2]))
             ELSE rest

\* a loop that a tuple with a negative coordinate ends
RECURSIVE OnPositionsUntilNegative(_, _)
OnPositionsUntilNegative(positions, delta_ts) ==
    IF positions = <<>> THEN <<>>
    ELSE LET pos      == positions[1]
             p_offset == IF Len(pos) >= 4 THEN pos[4] ELSE 0
         IN  IF Len(pos) < 2
             THEN OnPositionsUntilNegative(Tail(positions), delta_ts)
             ELSE IF pos[1] >= 0 /\ pos[2] >= 0
             THEN <<KinematicVector(delta_ts + p_offset, pos[1], pos[2])>>
                      \o OnPositionsUntilNegative(Tail(positions), delta_ts)
             ELSE <<>>

\* lines 131-144: the vectors of a positions array
RECURSIVE OnPositions(_, _)
OnPositions(positions, delta_ts) ==
    IF positions = <<>> THEN <<>>
    ELSE LET pos      == positions[Len(positions)]
             rest     == OnPositions(SubSeq(positions, 1, Len(positions) - 1), delta_ts)
             p_offset == IF Len(pos) >= 4 THEN pos[4] ELSE 0
         IN  IF Len(pos) >= 2 /\ pos[1] >= 0 /\ pos[2] >= 0
             THEN Append(rest, KinematicVector(delta_ts + p_offset, pos[1], pos[2]))
             ELSE rest

\* a click that never finds its target in the map
OnClickNoLookup(data, delta_ts, map) ==
    UserAction(delta_ts, "click", GetOpt(data, "id"),
               Some(<<"E", "l", "e", "m", "e", "n", "t", ":", " ">>
                        \o <<"u", "n", "k", "n", "o", "w", "n", "_", "e", "l", "e", "m", "e", "n", "t">>
                        \o <<" ", "|", " ", "C", "o", "o", "r", "d", "s", ":", " ", "(">>
                        \o OptIntStr(GetOpt(data, "x")) \o <<",", " ">>
                        \o OptIntStr(GetOpt(data, "y")) \o <<")">>))

\* lines 150-159
OnClick(data, delta_ts, map) ==
    LET target_id == GetOpt(data, "id")
        node_html == IF target_id # None /\ target_id[1] \in DOMAIN map
                     THEN map[target_id[1]]
                     ELSE <<"u", "n", "k", "n", "o", "w", "n", "_", "e", "l", "e", "m", "e", "n", "t">>
    IN  UserAction(delta_ts, "click", target_id,
                   Some(<<"E", "l", "e", "m", "e", "n", "t", ":", " ">> \o node_html \o <<" ", "|", " ", "C", "o", "o", "r", "d", "s", ":", " ", "(">>
                            \o OptIntStr(GetOpt(data, "x")) \o <<",", " ">>
                            \o OptIntStr(GetOpt(data, "y")) \o <<")">>))

\* lines 163-185
OnInput(data, delta_ts, map) ==
    LET target_id    == GetOpt(data, "id")
        text_val     == Get(data, "text", <<>>)
        safe_text    == IF Len(text_val) > INPUT_MAX_LEN
                        THEN Prefix(text_val, INPUT_MAX_LEN) \o Ellipsis
                        ELSE text_val
        details      == IF Has(data, "isChecked")
                        THEN <<"C", "h", "e", "c", "k", "e", "d", ":", " ">> \o (IF data.isChecked THEN <<"T", "r", "u", "e">> ELSE <<"F", "a", "l", "s", "e">>)
                        ELSE <<"T", "y", "p", "e", "d", ":", " ", "'">> \o safe_text \o <<"'">>
        node_context == IF target_id # None /\ target_id[1] \in DOMAIN map
                        THEN map[target_id[1]]
                        ELSE <<>>
    IN  UserAction(delta_ts, "input", target_id,
                   Some(IF node_context # <<>>
                        THEN details \o <<" ", "o", "n", " ">> \o node_context
                        ELSE details))

\* lines 93-185: the body of the for loop, on the buckets
\* st = [kinematics, actions, dom_map]
ProcessEvent(st, event, start) ==
    LET delta_ts == event.timestamp - start
        data     == event.data
    IN  IF event.type = TYPE_DOM_SNAPSHOT
        THEN [st EXCEPT !.dom_map = OnSnapshot(data, st.dom_map)]
        ELSE IF event.type = TYPE_META
        THEN [st EXCEPT !.actions = st.actions \o OnMeta(data, delta_ts)]
        ELSE IF event.type = TYPE_INCREMENTAL
        THEN IF Has(data, "source") /\ data.source = SOURCE_MOUSE_MOVE
             THEN [st EXCEPT !.kinematics =
                       st.kinematics \o OnPositions(Get(data, "positions", <<>>), delta_ts)]
             ELSE IF Has(data, "source") /\ data.source = SOURCE_MOUSE_INTERACTION
             THEN IF Has(data, "type") /\ data.type = INTERACTION_CLICK
                  THEN [st EXCEPT !.actions = Append(st.actions, OnClick(data, delta_ts, st.dom_map))]
                  ELSE st
             ELSE IF Has(data, "source") /\ data.source = SOURCE_INPUT
             THEN [st EXCEPT !.actions = Append(st.actions, OnInput(data, delta_ts, st.dom_map))]
             ELSE st
        ELSE st

\* the payload keys whose value is JSON null are the members of the field
\* "null" and are not fields themselves (dict.get returns None for them as
\* for a missing key); element j of tuple k of a positions array is null
\* when <<k, j>> is a member of the field "nullAt" (the tuple then holds 0
\* as a placeholder there)
IsNull(data, k) == Has(data, "null") /\ k \in data.null

NullAt(data, k, j) == Has(data, "nullAt") /\ <<k, j>> \in data.nullAt

\* lines 133-140: the tuple raises TypeError on "None >= 0" (line 139) or on
\* "delta_ts + None" (line 141); "x >= 0 and y >= 0" does not look at y when
\* x is negative
TupleRaises(data, k) ==
    LET pos == data.positions[k]
    IN  IF Len(pos) < 2 THEN FALSE
        ELSE IF NullAt(data, k, 1) THEN TRUE
        ELSE IF pos[1] < 0 THEN FALSE
        ELSE IF NullAt(data, k, 2) THEN TRUE
        ELSE IF pos[2] < 0 THEN FALSE
        ELSE Len(pos) >= 4 /\ NullAt(data, k, 4)

\* lines 130-131: "for pos in None" raises TypeError, and so does a tuple
PositionsRaise(data) ==
    \/ IsNull(data, "positions")
    \/ Has(data, "positions") /\ \E k \in 1..Len(data.positions) : TupleRaises(data, k)

\* lines 164-172: "len(None)" raises TypeError unless isChecked is given
InputRaises(data) == ~Has(data, "isChecked") /\ IsNull(data, "text")

\* lines 92-185: the iteration on this event raises (process has no try)
EventRaises(event) ==
    /\ event.type = TYPE_INCREMENTAL
    /\ Has(event.data, "source")
    /\ \/ event.data.source = SOURCE_MOUSE_MOVE /\ PositionsRaise(event.data)
       \/ event.data.source = SOURCE_INPUT /\ InputRaises(event.data)

\* the latest timestamp seen so far
LatestTimestamp(last, current_raw_ts) == IF current_raw_ts > last THEN current_raw_ts ELSE last

\* the timestamp kept from the first event
FirstTimestamp(last, current_raw_ts) == last

\* line 95: last_timestamp is the timestamp of the event consumed last
LastTimestamp(last, current_raw_ts) == current_raw_ts

\* the buckets a call would start from if it kept the ones it finds
LeftoverBuckets == [kinematics |-> kinematics, actions |-> actions, dom_map |-> dom_map]

\* lines 75-77: the three buckets are created by the call
NewBuckets == [kinematics |-> <<>>, actions |-> <<>>, dom_map |-> <<>>]

ProcIdle ==
    /\ consumed = 0
    /\ start_time = 0
    /\ last_timestamp = 0
    /\ kinematics = <<>>
    /\ actions = <<>>
    /\ dom_map = <<>>
    /\ session = <<>>

\* lines 65-77
ProcessStart ==
    /\ pc = "process_start"
    /\ IF events = <<>>
       THEN /\ session' = <<EmptySession>>
            /\ pc' = "process_return"
            /\ UNCHANGED <<start_time, last_timestamp>>
       ELSE /\ start_time' = events[1].timestamp
            /\ last_timestamp' = events[1].timestamp
            /\ session' = <<>>
            /\ pc' = "process_loop"
    /\ consumed' = 0
    /\ kinematics' = NewBuckets.kinematics
    /\ actions' = NewBuckets.actions
    /\ dom_map' = NewBuckets.dom_map
    /\ UNCHANGED <<endpoint, events, callVars, workerVars, mlVars, rageVars, result>>

\* lines 92-185: one iteration of the for loop
ProcessStep ==
    /\ pc = "process_loop"
    /\ consumed < Len(events)
    /\ LET event == events[consumed + 1]
           st    == ProcessEvent([kinematics |-> kinematics, actions |-> actions,
                                  dom_map |-> dom_map], event, start_time)
       IN  /\ last_timestamp' = LastTimestamp(last_timestamp, event.timestamp)
           /\ IF EventRaises(event)
              THEN \* the TypeError leaves process and its caller: nothing is
                   \* returned and the buckets, which are locals, are lost
                   /\ pc' = "raised"
                   /\ UNCHANGED <<kinematics, actions, dom_map>>
              ELSE /\ pc' = pc
                   /\ kinematics' = st.kinematics
                   /\ actions' = st.actions
                   /\ dom_map' = st.dom_map
    /\ consumed' = consumed + 1
    /\ UNCHANGED <<endpoint, events, callVars, workerVars, start_time, session, mlVars, rageVars, result>>

\* lines 187-198
ProcessFinish ==
    /\ pc = "process_loop"
    /\ consumed = Len(events)
    /\ session' = <<ProcessedSession(start_time, last_timestamp - start_time,
                                     kinematics, actions, dom_map)>>
    /\ pc' = "process_return"
    /\ UNCHANGED <<endpoint, events, callVars, workerVars, consumed, start_time, last_timestamp, kinematics,
                   actions, dom_map, mlVars, rageVars, result>>

\* the caller has the session: the test or service that called process, or
\* analyze_session at main.py line 300, which goes on to the motion detector
ProcessReturn ==
    /\ pc = "process_return"
    /\ pc' = IF endpoint = "analyze_session" THEN "ml_start" ELSE "done"
    /\ UNCHANGED <<endpoint, events, callVars, workerVars, procVars, mlVars, rageVars, result>>

\* the caller that has the session calls process again on the same list and
\* keeps the first session to compare
ProcessAgain ==
    /\ pc = "done"
    /\ endpoint = "process"
    /\ previous = <<>>
    /\ previous' = session
    /\ pc' = "process_start"
    /\ UNCHANGED <<endpoint, events, peer, workerVars, procVars, mlVars, rageVars, result>>

-----------------------------------------------------------------------------
(* services/ml_analyzer.py : detect_behavioral_anomalies *)

MIN_VECTORS == 10
MIN_FEATURES == 2

\* a guard on the number of rows the outlier model needs
TooFewForAModel(kin) == Len(kin) < MIN_FEATURES

\* line 18
TooFewVectors(kin) == Len(kin) < MIN_VECTORS

\* pairs kept unless time runs backwards
RetainedPairsWithTies(move_points) ==
    {k \in 1..(Len(move_points) - 1) :
        move_points[k + 1].timestamp - move_points[k].timestamp >= 0}

\* lines 28-45: the indices i (0-based, 1 <= i < len) of the retained pairs
\* (move_points[i-1], move_points[i]), those with dt > 0
RetainedPairs(move_points) ==
    {k \in 1..(Len(move_points) - 1) :
        move_points[k + 1].timestamp - move_points[k].timestamp > 0}

\* the k-th smallest element (k from 1) of a set of integers
KthOf(S, k) == CHOOSE x \in S : Cardinality({y \in S : y < x}) = k - 1

\* lines 29-44: the feature of the pair ending at index k (0-based). The
\* numbers the code derives are kept as the exact integers they are derived
\* from: velocity = sqrt(dist2) / (dt_ms / 1000), angle = atan2(dy, dx) of
\* dir = <<dx, dy>>, and delta_angle = 0.0 when prev_dir = <<>> (i = 1), else
\* angle - atan2 of prev_dir wrapped into [-pi, pi).
FeatureOf(move_points, k) ==
    LET p1 == move_points[k]
        p2 == move_points[k + 1]
    IN  [dist2    |-> (p1.x - p2.x) * (p1.x - p2.x) + (p1.y - p2.y) * (p1.y - p2.y),
         dt_ms    |-> p2.timestamp - p1.timestamp,
         dir      |-> <<p2.x - p1.x, p2.y - p1.y>>,
         prev_dir |-> IF k > 1
                      THEN <<p1.x - move_points[k - 1].x, p1.y - move_points[k - 1].y>>
                      ELSE <<>>]

\* an insight whose box swaps the two coordinates
MotionInsightSwapped(p) ==
    InsightEvent(p.timestamp, "usability", "medium", "Erratic Movement Detected (AI)",
                 BoundingBox(p.x - 25, p.y - 25, 50, 50), "IsolationForest")

\* lines 60-67
MotionInsight(p) ==
    InsightEvent(p.timestamp, "usability", "medium", "Erratic Movement Detected (AI)",
                 BoundingBox(p.y - 25, p.x - 25, 50, 50), "IsolationForest")

\* the insights of the points labelled -1, the last point first
RECURSIVE InsightsOfLastFirst(_, _, _)
InsightsOfLastFirst(points, F, idx) ==
    IF idx >= Len(points) THEN <<>>
    ELSE InsightsOfLastFirst(points, F, idx + 1)
             \o (IF idx \in F THEN <<MotionInsight(points[idx + 1])>> ELSE <<>>)

\* lines 57-67: the insights of the points labelled -1, in index order
\* (F is the set of 0-based indices into points)
RECURSIVE InsightsOf(_, _, _)
InsightsOf(points, F, idx) ==
    IF idx >= Len(points) THEN <<>>
    ELSE (IF idx \in F THEN <<MotionInsight(points[idx + 1])>> ELSE <<>>)
             \o InsightsOf(points, F, idx + 1)

MotionIdle ==
    /\ valid_points = <<>>
    /\ features = <<>>
    /\ flagged = {}
    /\ insights_ml = <<>>

\* the argument of the call: processed.kinematics in analyze_session
\* (main.py line 305), the caller's list otherwise
MotionInput == IF endpoint = "analyze_session" THEN session[1].kinematics ELSE kinematics

\* lines 16-51: guard, sort, feature loop, guards
MotionFeatures ==
    /\ pc = "ml_start"
    /\ LET move_points == SortByTimestamp(MotionInput)
           kept        == RetainedPairs(move_points)
           m           == Cardinality(kept)
       IN  IF TooFewVectors(MotionInput)
           THEN /\ valid_points' = <<>>
                /\ features' = <<>>
                /\ pc' = "ml_return"
           ELSE /\ valid_points' = [k \in 1..m |-> move_points[KthOf(kept, k) + 1]]
                /\ features' = [k \in 1..m |-> FeatureOf(move_points, KthOf(kept, k))]
                /\ pc' = IF m < MIN_FEATURES THEN "ml_return" ELSE "ml_fit"
    /\ flagged' = {}
    /\ insights_ml' = <<>>
    /\ UNCHANGED <<endpoint, events, callVars, workerVars, procVars, rageVars, result>>

\* lines 53-67: IsolationForest(contamination=0.05, random_state=42).fit_predict
\* is not modelled: any labelling of the rows is possible, with at most
\* MaxFlagged rows labelled -1
MotionPredict ==
    /\ pc = "ml_fit"
    /\ \E F \in SUBSET (0..(Len(valid_points) - 1)) :
          /\ Cardinality(F) <= MaxFlagged
          /\ flagged' = F
          /\ insights_ml' = InsightsOf(valid_points, F, 0)
    /\ pc' = "ml_return"
    /\ UNCHANGED <<endpoint, events, callVars, workerVars, procVars, valid_points, features, rageVars, result>>

\* the caller has the list: the test or service that called the detector, or
\* analyze_session at main.py line 305, which goes on to the rage-click detector
MotionReturn ==
    /\ pc = "ml_return"
    /\ pc' = IF endpoint = "analyze_session" THEN "rage_start" ELSE "done"
    /\ UNCHANGED <<endpoint, events, callVars, workerVars, procVars, mlVars, rageVars, result>>

-----------------------------------------------------------------------------
(* services/heuristic_analyzer.py : detect_rage_clicks *)

RAGE_WINDOW_MS == 1000
RAGE_RADIUS_PX == 30
RAGE_MIN_CLICKS == 3

\* a filter that forgets the interaction sub-type
IsClickEventAnyInteraction(e) ==
    /\ e.type = 3
    /\ Has(e.data, "source") /\ e.data.source = 2

\* line 18: the click filter
IsClickEvent(e) ==
    /\ e.type = 3
    /\ Has(e.data, "source") /\ e.data.source = 2
    /\ Has(e.data, "type") /\ e.data.type = 2

\* line 19: the dict kept for a click
ClickOf(e) ==
    [x |-> Get(e.data, "x", 0), y |-> Get(e.data, "y", 0), timestamp |-> e.timestamp]

\* lines 17-19
FilterClicks(evs) ==
    LET sel == SelectSeq(evs, IsClickEvent)
    IN  [k \in 1..Len(sel) |-> ClickOf(sel[k])]

\* _calculate_distance(p1, p2) <= r, for integer coordinates: the square root
\* of an integer n is <= r exactly when n <= r * r.
WithinDistance(p1, p2, r) ==
    (p1.x - p2.x) * (p1.x - p2.x) + (p1.y - p2.y) * (p1.y - p2.y) <= r * r

\* a window that excludes its upper bound
OutsideWindowExclusive(anchor, c) == c.timestamp - anchor.timestamp >= RAGE_WINDOW_MS

\* line 29: the window test that breaks the inner loop
OutsideWindow(anchor, c) == c.timestamp - anchor.timestamp > RAGE_WINDOW_MS

\* a membership test chained on the last member instead of the anchor
JoinsClusterChained(cs, cluster, j) ==
    WithinDistance(cs[cluster[Len(cluster)] + 1], cs[j + 1], RAGE_RADIUS_PX)

\* line 32: the membership test
JoinsCluster(cs, cluster, j) == WithinDistance(cs[cluster[1] + 1], cs[j + 1], RAGE_RADIUS_PX)

\* lines 26-33: the inner for loop from j, with the cluster built so far
\* (cluster holds 0-based indices into the click list; cluster[1] is the anchor).
RECURSIVE ScanCluster(_, _, _)
ScanCluster(cs, cluster, j) ==
    IF j >= Len(cs) THEN cluster
    ELSE IF OutsideWindow(cs[cluster[1] + 1], cs[j + 1]) THEN cluster
    ELSE ScanCluster(cs, IF JoinsCluster(cs, cluster, j) THEN Append(cluster, j) ELSE cluster, j + 1)

\* the clicks the inner loop looked at before breaking (history only)
RECURSIVE ScannedUpTo(_, _, _)
ScannedUpTo(cs, a, j) ==
    IF j >= Len(cs) THEN {}
    ELSE IF OutsideWindow(cs[a + 1], cs[j + 1]) THEN {}
    ELSE {j} \cup ScannedUpTo(cs, a, j + 1)

\* an insight stamped with the time since the first click of the list
RageInsightSinceFirst(anchor) ==
    InsightEvent(anchor.timestamp - clicks[1].timestamp, "heuristic", "critical", "Rage Click Detected",
                 BoundingBox(anchor.y - 25, anchor.x - 25, 50, 50), "RuleBased")

\* an insight with another severity
RageInsightMedium(anchor) ==
    InsightEvent(anchor.timestamp, "heuristic", "medium", "Rage Click Detected",
                 BoundingBox(anchor.y - 25, anchor.x - 25, 50, 50), "RuleBased")

\* lines 36-43
RageInsight(anchor) ==
    InsightEvent(anchor.timestamp, "heuristic", "critical", "Rage Click Detected",
                 BoundingBox(anchor.y - 25, anchor.x - 25, 50, 50), "RuleBased")

\* a cursor that stops on the last click of an emitted cluster
NextCursorOnLast(cur, cluster) ==
    IF Len(cluster) >= RAGE_MIN_CLICKS THEN cur + Len(cluster) - 1 ELSE cur + 1

\* a cursor that advances by two after a step without a cluster
NextCursorByTwo(cur, cluster) ==
    IF Len(cluster) >= RAGE_MIN_CLICKS THEN cur + Len(cluster) ELSE cur + 2

\* lines 44 and 46: the cursor after a step
NextCursor(cur, cluster) ==
    IF Len(cluster) >= RAGE_MIN_CLICKS THEN cur + Len(cluster) ELSE cur + 1

RageIdle ==
    /\ clicks = <<>>
    /\ i = 0
    /\ insights = <<>>
    /\ steps = <<>>

\* lines 13-22: filter, early return, sort
RageFilter ==
    /\ pc = "rage_start"
    /\ LET cs == FilterClicks(events)
       IN  IF Len(cs) < RAGE_MIN_CLICKS
           THEN /\ clicks' = cs
                /\ pc' = "rage_return"
           ELSE /\ clicks' = SortByTimestamp(cs)
                /\ pc' = "rage_scan"
    /\ i' = 0
    /\ insights' = <<>>
    /\ steps' = <<>>
    /\ UNCHANGED <<endpoint, events, callVars, workerVars, procVars, mlVars, result>>

\* lines 25-46: one iteration of the while loop
RageStep ==
    /\ pc = "rage_scan"
    /\ i < Len(clicks) - 2
    /\ LET cluster == ScanCluster(clicks, <<i>>, i + 1)
           emit    == Len(cluster) >= RAGE_MIN_CLICKS
       IN  /\ insights' = IF emit THEN Append(insights, RageInsight(clicks[cluster[1] + 1]))
                          ELSE insights
           /\ i' = NextCursor(i, cluster)
           /\ steps' = Append(steps, [anchor   |-> i,
                                      members  |-> Range(cluster),
                                      rejected |-> ScannedUpTo(clicks, i, i + 1) \ Range(cluster),
                                      emitted  |-> emit,
                                      next     |-> NextCursor(i, cluster)])
    /\ UNCHANGED <<endpoint, events, callVars, workerVars, pc, clicks, procVars, mlVars, result>>

\* line 25 false: leave the loop; line 47 (or line 21): return insights
RageLoopExit ==
    /\ pc = "rage_scan"
    /\ ~(i < Len(clicks) - 2)
    /\ pc' = "rage_return"
    /\ UNCHANGED <<endpoint, events, callVars, workerVars, rageVars, procVars, mlVars, result>>

\* the caller has the list: the test or service that called the detector, or
\* analyze_session at main.py line 310, which goes on to merge
RageReturn ==
    /\ pc = "rage_return"
    /\ pc' = IF endpoint = "analyze_session" THEN "aggregate" ELSE "done"
    /\ UNCHANGED <<endpoint, events, callVars, workerVars, rageVars, procVars, mlVars, result>>

-----------------------------------------------------------------------------
(* Inputs of the rage-click detector *)

\* three points: A-B are exactly 30 apart, B-C are close, A-C are farther than 30
PointA == <<0, 0>>
PointB == <<30, 0>>
PointC == <<31, 5>>

ClickEvent(x, y, t) ==
    [type |-> 3, timestamp |-> t, data |-> [source |-> 2, type |-> 2, x |-> x, y |-> y]]

\* a click whose payload carries no coordinates
ClickNoCoords(t) ==
    [type |-> 3, timestamp |-> t, data |-> [source |-> 2, type |-> 2]]

\* a mouse-down (interaction type 1): same source, not a click
MouseDownEvent(x, y, t) ==
    [type |-> 3, timestamp |-> t, data |-> [source |-> 2, type |-> 1, x |-> x, y |-> y]]

RageUniverse ==
    { ClickEvent(PointA[1], PointA[2], 0),
      ClickEvent(PointB[1], PointB[2], 0),
      ClickEvent(PointC[1], PointC[2], 0),
      ClickNoCoords(1000),
      ClickEvent(PointA[1], PointA[2], 1001),
      MouseDownEvent(0, 0, 0) }

\* the three clicks of the documented example
ExampleClicks ==
    <<ClickEvent(100, 100, 0), ClickEvent(110, 105, 200), ClickEvent(120, 95, 400)>>

RageInputs == SeqsUpTo(RageUniverse, MaxRageEvents) \cup {ExampleClicks}

InitRage ==
    /\ endpoint = "detect_rage_clicks"
    /\ events \in RageInputs
    /\ pc = "rage_start"
    /\ ProcIdle /\ MotionIdle /\ RageIdle
    /\ result = <<>>
    /\ SingleCall
    /\ WorkerIdle

NextRage == RageFilter \/ RageStep \/ RageLoopExit \/ RageReturn

SpecRage == InitRage /\ [][NextRage]_vars

-----------------------------------------------------------------------------
(* main.py : analyze_session *)

\* lines 312-315: result = insights_ml + insights_rule; return result
AnalyzeMerge ==
    /\ pc = "aggregate"
    /\ endpoint = "analyze_session"
    /\ result' = <<insights_ml \o insights>>
    /\ pc' = "done"
    /\ UNCHANGED <<endpoint, events, callVars, workerVars, procVars, mlVars, rageVars>>

-----------------------------------------------------------------------------
(* Inputs of process *)

\* an element node (rrweb node type 2)
Element(id, tagName, attributes, childNodes) ==
    [type |-> 2, id |-> id, tagName |-> tagName, attributes |-> attributes,
     childNodes |-> childNodes]

\* a text node (rrweb node type 3)
TextNode(id, textContent) == [type |-> 3, id |-> id, textContent |-> textContent]

\* the document node (rrweb node type 0): an id, no tag name
Document(id, childNodes) == [type |-> 0, id |-> id, childNodes |-> childNodes]

MidTags == {<<"d", "i", "v">>, <<"s", "c", "r", "i", "p", "t">>, <<"S", "T", "Y", "L", "E">>}
LeafIds == {4, 5}

\* document 1 > rootTag 2 > ( midTag 3 > button leafId > text 9 , span 4 )
\* with leafId = 4 the id under the middle node is the id of the span as well
SnapshotTree(rootTag, midTag, leafId) ==
    Document(1, <<
        Element(2, rootTag, <<>>, <<
            Element(3, midTag, << <<<<"c", "l", "a", "s", "s">>, <<"b", "o", "x">>>>, <<<<"s", "t", "y", "l", "e">>, <<"x">>>> >>, <<
                Element(leafId, <<"b", "u", "t", "t", "o", "n">>, <<>>, << TextNode(9, <<"o", "k">>) >>) >>),
            Element(4, <<"s", "p", "a", "n">>, <<>>, <<>>) >>) >>)

SnapshotEvent(node, t) == [type |-> 2, timestamp |-> t, data |-> [node |-> node]]

NavigationEvent(href, t) == [type |-> 4, timestamp |-> t, data |-> [href |-> href]]

ResizeEvent(width, height, t) ==
    [type |-> 4, timestamp |-> t, data |-> [width |-> width, height |-> height]]

MoveEvent(positions, t) ==
    [type |-> 3, timestamp |-> t, data |-> [source |-> 1, positions |-> positions]]

TargetClickEvent(id, x, y, t) ==
    [type |-> 3, timestamp |-> t,
     data |-> [source |-> 2, type |-> 2, id |-> id, x |-> x, y |-> y]]

InputEvent(id, text, t) ==
    [type |-> 3, timestamp |-> t, data |-> [source |-> 5, id |-> id, text |-> text]]

ProcessUniverse ==
    {SnapshotEvent(SnapshotTree(<<"h", "t", "m", "l">>, m, l), 1000) : m \in MidTags, l \in LeafIds}
        \cup { SnapshotEvent(SnapshotTree(<<"n", "o", "s", "c", "r", "i", "p", "t">>,
                                          <<"d", "i", "v">>, 5), 1000),
               NavigationEvent(<<"/", "a">>, 1000),
               ResizeEvent(800, 600, 1100),
               MoveEvent(<< <<5, 6, 1, 0>>, <<-1, 4, 1, 10>>, <<7, 8>> >>, 1200),
               TargetClickEvent(5, 12, 34, 1300),
               InputEvent(4, <<"h", "i">>, 900) }

ProcessInputs == SeqsUpTo(ProcessUniverse, MaxProcessEvents)

InitProcess ==
    /\ endpoint = "process"
    /\ events \in ProcessInputs
    /\ pc = "process_start"
    /\ ProcIdle /\ MotionIdle /\ RageIdle
    /\ result = <<>>
    /\ SingleCall
    /\ WorkerIdle

NextProcess == ProcessStart \/ ProcessStep \/ ProcessFinish \/ ProcessReturn

SpecProcess == InitProcess /\ [][NextProcess]_vars

-----------------------------------------------------------------------------
(* Inputs of process: payloads with missing and null sub-fields *)

\* a pointer-move event whose payload has no positions key
MoveNoPositions(t) == [type |-> 3, timestamp |-> t, data |-> [source |-> 1]]

\* a pointer-move event whose positions is null
MoveNullPositions(t) ==
    [type |-> 3, timestamp |-> t, data |-> [source |-> 1, null |-> {"positions"}]]

\* a pointer-move event with null elements in its tuples
MoveNullAt(positions, nullAt, t) ==
    [type |-> 3, timestamp |-> t,
     data |-> [source |-> 1, positions |-> positions, nullAt |-> nullAt]]

\* a click with no coordinates and no target id
BareClickEvent(t) == [type |-> 3, timestamp |-> t, data |-> [source |-> 2, type |-> 2]]

\* an input with no text key
InputNoText(id, t) == [type |-> 3, timestamp |-> t, data |-> [source |-> 5, id |-> id]]

\* an input whose text is null
InputNullText(id, t) ==
    [type |-> 3, timestamp |-> t, data |-> [source |-> 5, id |-> id, null |-> {"text"}]]

PayloadUniverse ==
    { SnapshotEvent(SnapshotTree(<<"h", "t", "m", "l">>, <<"d", "i", "v">>, 5), 1000),
      NavigationEvent(<<"/", "a">>, 1000),
      MoveEvent(<< <<5, 6, 1, 0>>, <<-1, 4, 1, 10>>, <<7, 8>> >>, 1200),
      MoveEvent(<< <<3, -2, 1, 5>>, <<9, 9, 1, 20>>, <<4>> >>, 1100),
      MoveNoPositions(1000),
      MoveNullPositions(1300),
      MoveNullAt(<< <<1, 2, 1, 0>>, <<0, 4, 1, 10>> >>, {<<2, 1>>}, 1250),
      MoveNullAt(<< <<-3, 0, 1, 7>>, <<6, 1, 0, 30>> >>, {<<1, 2>>, <<2, 3>>}, 1150),
      BareClickEvent(1400),
      TargetClickEvent(5, 12, 34, 1050),
      InputNoText(4, 900),
      InputNullText(4, 1500) }

PayloadInputs == SeqsUpTo(PayloadUniverse, MaxPayloadEvents)

InitPayload ==
    /\ endpoint = "process"
    /\ events \in PayloadInputs
    /\ pc = "process_start"
    /\ ProcIdle /\ MotionIdle /\ RageIdle
    /\ result = <<>>
    /\ SingleCall
    /\ WorkerIdle

SpecPayload == InitPayload /\ [][NextProcess]_vars

\* process called twice on the same list
NextTwice == ProcessStart \/ ProcessStep \/ ProcessFinish \/ ProcessReturn \/ ProcessAgain

SpecTwice == InitPayload /\ [][NextTwice]_vars

-----------------------------------------------------------------------------
(* Inputs of analyze_session *)

\* a pointer path of k samples: (10j, j*j) at offset 20j
Path(k) == [j \in 1..k |-> <<10 * j, j * j, 1, 20 * j>>]

AnalyzeUniverse ==
    { MoveEvent(Path(MIN_VECTORS), 0),
      MoveEvent(Path(MIN_VECTORS \div 2), 100),
      ClickEvent(PointA[1], PointA[2], 0),
      ClickEvent(PointB[1], PointB[2], 200),
      ClickEvent(PointA[1], PointA[2], 1001) }

AnalyzeInputs == SeqsUpTo(AnalyzeUniverse, MaxAnalyzeEvents)

InitAnalyze ==
    /\ endpoint = "analyze_session"
    /\ events \in AnalyzeInputs
    /\ pc = "process_start"
    /\ ProcIdle /\ MotionIdle /\ RageIdle
    /\ result = <<>>
    /\ SingleCall
    /\ WorkerIdle

NextAnalyze ==
    \/ ProcessStart \/ ProcessStep \/ ProcessFinish \/ ProcessReturn
    \/ MotionFeatures \/ MotionPredict \/ MotionReturn
    \/ RageFilter \/ RageStep \/ RageLoopExit \/ RageReturn
    \/ AnalyzeMerge

SpecAnalyze == InitAnalyze /\ [][NextAnalyze]_vars

-----------------------------------------------------------------------------
(* Inputs of detect_behavioral_anomalies *)

\* the positions k (from 2) of a track whose vector may carry the timestamp
\* of the vector before it
TiePositions == {2, 5, 6}

\* the timestamp of the k-th vector of a track with ties at T: 20 ms after
\* the vector before it, or the same
TrackTime(k, T) == 20 * (k - 1 - Cardinality({j \in T : j <= k}))

\* n vectors along a curve, none of its segments parallel to another
Track(n, T) == [k \in 1..n |-> KinematicVector(TrackTime(k, T), 10 * k, k * k)]

Reverse(s) == [k \in 1..Len(s) |-> s[Len(s) + 1 - k]]

Tracks == {Track(n, T) : n \in 0..MaxVectors, T \in SUBSET TiePositions}

\* the tracks as recorded and in the opposite order
MotionInputs == Tracks \cup {Reverse(t) : t \in Tracks}

InitMotion ==
    /\ endpoint = "detect_behavioral_anomalies"
    /\ events = <<>>
    /\ pc = "ml_start"
    /\ kinematics \in MotionInputs
    /\ consumed = 0 /\ start_time = 0 /\ last_timestamp = 0
    /\ actions = <<>> /\ dom_map = <<>> /\ session = <<>>
    /\ MotionIdle /\ RageIdle
    /\ result = <<>>
    /\ SingleCall
    /\ WorkerIdle

NextMotion == MotionFeatures \/ MotionPredict \/ MotionReturn

SpecMotion == InitMotion /\ [][NextMotion]_vars

-----------------------------------------------------------------------------
(* Two calls in progress at once *)

\* the locals of the running call (its argument and its position included)
Locals ==
    [endpoint |-> endpoint, events |-> events, pc |-> pc,
     consumed |-> consumed, start_time |-> start_time, last_timestamp |-> last_timestamp,
     kinematics |-> kinematics, actions |-> actions, dom_map |-> dom_map, session |-> session,
     valid_points |-> valid_points, features |-> features, flagged |-> flagged,
     insights_ml |-> insights_ml,
     clicks |-> clicks, i |-> i, insights |-> insights, steps |-> steps, result |-> result]

\* a markup lookup that the calls share
OwnedButLookup == (DOMAIN Locals) \ {"dom_map"}

\* what a call works on belongs to the call: process creates its buckets and
\* its lookup (data_processor.py lines 72-77), the detectors their lists
\* (ml_analyzer.py lines 16-25, heuristic_analyzer.py lines 13-24); no
\* module or class attribute is written
Owned == DOMAIN Locals

\* the value of a name once the other call runs: the other call's own, or
\* the one in place if the name is not owned by a call
Resumed(name, inPlace, other) == IF name \in Owned THEN other ELSE inPlace

\* the running call is suspended and the other call goes on
Switch ==
    /\ peer # <<>>
    /\ peer' = <<Locals>>
    /\ endpoint' = Resumed("endpoint", endpoint, peer[1].endpoint)
    /\ events' = Resumed("events", events, peer[1].events)
    /\ pc' = Resumed("pc", pc, peer[1].pc)
    /\ consumed' = Resumed("consumed", consumed, peer[1].consumed)
    /\ start_time' = Resumed("start_time", start_time, peer[1].start_time)
    /\ last_timestamp' = Resumed("last_timestamp", last_timestamp, peer[1].last_timestamp)
    /\ kinematics' = Resumed("kinematics", kinematics, peer[1].kinematics)
    /\ actions' = Resumed("actions", actions, peer[1].actions)
    /\ dom_map' = Resumed("dom_map", dom_map, peer[1].dom_map)
    /\ session' = Resumed("session", session, peer[1].session)
    /\ valid_points' = Resumed("valid_points", valid_points, peer[1].valid_points)
    /\ features' = Resumed("features", features, peer[1].features)
    /\ flagged' = Resumed("flagged", flagged, peer[1].flagged)
    /\ insights_ml' = Resumed("insights_ml", insights_ml, peer[1].insights_ml)
    /\ clicks' = Resumed("clicks", clicks, peer[1].clicks)
    /\ i' = Resumed("i", i, peer[1].i)
    /\ insights' = Resumed("insights", insights, peer[1].insights)
    /\ steps' = Resumed("steps", steps, peer[1].steps)
    /\ result' = Resumed("result", result, peer[1].result)
    /\ UNCHANGED <<previous, workerVars>>

\* the first position of a call
StartPc(ep) ==
    IF ep = "process" THEN "process_start"
    ELSE IF ep = "detect_rage_clicks" THEN "rage_start"
    ELSE "ml_start"

\* the locals of a call that has not started
StartOf(ep, evs, kin) ==
    [endpoint |-> ep, events |-> evs, pc |-> StartPc(ep),
     consumed |-> 0, start_time |-> 0, last_timestamp |-> 0,
     kinematics |-> kin, actions |-> <<>>, dom_map |-> <<>>, session |-> <<>>,
     valid_points |-> <<>>, features |-> <<>>, flagged |-> {}, insights_ml |-> <<>>,
     clicks |-> <<>>, i |-> 0, insights |-> <<>>, steps |-> <<>>, result |-> <<>>]

ConcurrentUniverse ==
    { SnapshotEvent(SnapshotTree(<<"h", "t", "m", "l">>, <<"d", "i", "v">>, 5), 1000),
      SnapshotEvent(SnapshotTree(<<"h", "t", "m", "l">>, <<"S", "T", "Y", "L", "E">>, 4), 1000),
      MoveEvent(<< <<5, 6, 1, 0>>, <<-1, 4, 1, 10>>, <<7, 8>> >>, 1200),
      TargetClickEvent(5, 12, 34, 1300) }

\* the calls of independent sessions: process on short lists, the rage-click
\* detector on two click lists, the motion detector on two tracks
ConcurrentCalls ==
    {StartOf("process", evs, <<>>) : evs \in SeqsUpTo(ConcurrentUniverse, MaxConcurrentEvents)}
        \cup {StartOf("detect_rage_clicks", evs, <<>>) :
                 evs \in {ExampleClicks,
                          <<ClickEvent(0, 0, 0), ClickEvent(0, 0, 0), ClickEvent(31, 5, 0),
                            ClickEvent(30, 0, 0), ClickEvent(0, 0, 1001)>>}}
        \cup {StartOf("detect_behavioral_anomalies", <<>>, kin) :
                 kin \in {Track(MIN_VECTORS, {5}), Track(MIN_VECTORS - 1, {})}}

InitConcurrent ==
    \E a \in ConcurrentCalls, b \in ConcurrentCalls :
        /\ endpoint = a.endpoint /\ events = a.events /\ pc = a.pc
        /\ consumed = a.consumed /\ start_time = a.start_time
        /\ last_timestamp = a.last_timestamp
        /\ kinematics = a.kinematics /\ actions = a.actions /\ dom_map = a.dom_map
        /\ session = a.session
        /\ valid_points = a.valid_points /\ features = a.features /\ flagged = a.flagged
        /\ insights_ml = a.insights_ml
        /\ clicks = a.clicks /\ i = a.i /\ insights = a.insights /\ steps = a.steps
        /\ result = a.result
        /\ peer = <<b>>
        /\ previous = <<>>
        /\ WorkerIdle

NextConcurrent ==
    \/ ProcessStart \/ ProcessStep \/ ProcessFinish \/ ProcessReturn
    \/ MotionFeatures \/ MotionPredict \/ MotionReturn
    \/ RageFilter \/ RageStep \/ RageLoopExit \/ RageReturn
    \/ Switch

SpecConcurrent == InitConcurrent /\ [][NextConcurrent]_vars

-----------------------------------------------------------------------------
(* Properties of detect_rage_clicks *)

\* the click-type interaction events of the input, in the words of the claims:
\* incremental event, mouse-interaction source, click sub-type
InputIsClick(e) ==
    e.type = 3 /\ Get(e.data, "source", -1) = 2 /\ Get(e.data, "type", -1) = 2

InputClicks == SelectSeq(events, InputIsClick)

InputX(e) == Get(e.data, "x", 0)
InputY(e) == Get(e.data, "y", 0)

SquaredDistance(x1, y1, x2, y2) == (x1 - x2) * (x1 - x2) + (y1 - y2) * (y1 - y2)

\* click c lies in the window and the radius of click a
NearAnchor(a, c) ==
    /\ 0 <= c.timestamp - a.timestamp
    /\ c.timestamp - a.timestamp <= 1000
    /\ SquaredDistance(a.x, a.y, c.x, c.y) <= 900

EmittedSteps == {k \in 1..Len(steps) : steps[k].emitted}

RageFinished == pc = "done" /\ endpoint = "detect_rage_clicks"

\* C2: an insight is emitted for anchor a only if at least 3 clicks (a included)
\* lie at 0..1000 ms after a and within distance 30 of a itself, and every click
\* counted in the cluster satisfies both bounds against the anchor; the k-th
\* insight carries the timestamp of the k-th emitting anchor.
Rage_C2_ClusterAgainstAnchor ==
    /\ Len(insights) = Cardinality(EmittedSteps)
    /\ \A k \in EmittedSteps :
          LET s == steps[k]
              a == clicks[s.anchor + 1]
              n == Cardinality({m \in EmittedSteps : m <= k})
          IN  /\ s.anchor \in s.members
              /\ Cardinality(s.members) >= 3
              /\ \A c \in s.members : NearAnchor(a, clicks[c + 1])
              /\ Cardinality({c \in 1..Len(clicks) : NearAnchor(a, clicks[c])}) >= 3
              /\ insights[n].timestamp = a.timestamp

\* C2 witness: a cluster was emitted while a click within 30 of a member but
\* farther than 30 from the anchor was left out.
Rage_C2_Witness ==
    /\ RageFinished
    /\ \E k \in EmittedSteps :
          \E r \in steps[k].rejected, m \in steps[k].members :
              /\ m # steps[k].anchor
              /\ SquaredDistance(clicks[r + 1].x, clicks[r + 1].y,
                                 clicks[m + 1].x, clicks[m + 1].y) <= 900

\* the earliest click of the input: minimal timestamp, first in input order
\* among equal timestamps
EarliestClick ==
    LET cs == InputClicks
        k  == CHOOSE a \in 1..Len(cs) :
                \A b \in 1..Len(cs) :
                    \/ cs[a].timestamp < cs[b].timestamp
                    \/ cs[a].timestamp = cs[b].timestamp /\ a <= b
    IN  cs[k]

ThreeCloseClicks ==
    /\ Len(InputClicks) = 3
    /\ \A k \in 1..3 :
          /\ InputClicks[k].timestamp - EarliestClick.timestamp <= 1000
          /\ SquaredDistance(InputX(EarliestClick), InputY(EarliestClick),
                             InputX(InputClicks[k]), InputY(InputClicks[k])) <= 900

\* C3: exactly three clicks, the other two within 1000 ms and distance 30 of the
\* earliest one: exactly one insight, of category heuristic, at the earliest
\* click's timestamp, with the 50x50 box around the earliest click.
Rage_C3_ThreeClicksOneInsight ==
    (RageFinished /\ ThreeCloseClicks) =>
        /\ Len(insights) = 1
        /\ insights[1].type = "heuristic"
        /\ insights[1].timestamp = EarliestClick.timestamp
        /\ insights[1].boundingBox =
              [top |-> InputY(EarliestClick) - 25, left |-> InputX(EarliestClick) - 25,
               width |-> 50, height |-> 50]

\* C3 witness: the documented example (100,100)@0, (110,105)@200, (120,95)@400
Rage_C3_Witness ==
    /\ RageFinished
    /\ events = ExampleClicks
    /\ ThreeCloseClicks
    /\ Len(insights) = 1
    /\ insights[1].timestamp = 0
    /\ insights[1].boundingBox = [top |-> 75, left |-> 75, width |-> 50, height |-> 50]

\* C4: fewer than 3 click-type interaction events in the input: empty result.
Rage_C4_FewClicksEmpty ==
    (RageFinished /\ Len(InputClicks) < 3) => insights = <<>>

\* C4 witness: two clicks at the same place and time among other events
Rage_C4_Witness ==
    /\ RageFinished
    /\ Len(InputClicks) = 2
    /\ Len(events) >= 4
    /\ InputClicks[1] = InputClicks[2]
    /\ insights = <<>>

\* C5 (as claimed): after an emitted cluster the cursor is past every member
\* of it, so no member of an emitted cluster is a later anchor or a member of
\* another emitted cluster.
Rage_C5_ClusterConsumed ==
    \A k1 \in EmittedSteps :
        /\ \A c \in steps[k1].members : c < steps[k1].next
        /\ \A k2 \in 1..Len(steps) :
              k1 < k2 =>
                /\ steps[k2].anchor \notin steps[k1].members
                /\ steps[k2].emitted => steps[k1].members \cap steps[k2].members = {}

\* C5, the consequence alone: no click is a member of two emitted clusters.
Rage_C5_OneInsightPerClick ==
    \A k1 \in EmittedSteps, k2 \in EmittedSteps :
        k1 # k2 => steps[k1].members \cap steps[k2].members = {}

\* the clicks an emitted cluster's cursor jump passes over
JumpedOver ==
    UNION {(steps[k].anchor + 1)..(steps[k].next - 1) : k \in EmittedSteps}

Anchors == {steps[k].anchor : k \in 1..Len(steps)}

RejectedClicks == UNION {steps[k].rejected : k \in 1..Len(steps)}

ScanOver == pc \in {"rage_return", "done"}

\* C6 (as claimed): every click rejected by an anchor and followed by at least
\* two clicks is visited as an anchor, whether or not a cluster was emitted.
Rage_C6_RejectedAlwaysRevisited ==
    ScanOver => \A r \in RejectedClicks : r < Len(clicks) - 2 => r \in Anchors

\* C6 (amended): a step that emits no cluster moves the cursor to the very next
\* click, and a rejected click followed by at least two clicks is visited as an
\* anchor unless the cursor jump of an emitted cluster passes over it.
Rage_C6_RejectedRevisitedUnlessJumped ==
    /\ \A k \in 1..Len(steps) : ~steps[k].emitted => steps[k].next = steps[k].anchor + 1
    /\ ScanOver =>
          \A r \in RejectedClicks :
              (r < Len(clicks) - 2 /\ r \notin JumpedOver) => r \in Anchors

\* C6 witness: a click rejected by an anchor that emitted a cluster was later
\* visited as an anchor itself.
Rage_C6_Witness ==
    /\ ScanOver
    /\ \E k1 \in EmittedSteps, k2 \in 1..Len(steps) :
          k1 < k2 /\ steps[k2].anchor \in steps[k1].rejected

-----------------------------------------------------------------------------
(* Properties of process and of the markup flattener *)

ProcessFinished == pc = "done" /\ endpoint = "process"

\* C1: process on an empty event list returns a session with initial timestamp
\* 0, total duration 0, and empty kinematics, actions and markup lookup.
Process_C1_EmptySession ==
    (ProcessFinished /\ events = <<>>) =>
        /\ Len(session) = 1
        /\ session[1].initial_timestamp = 0
        /\ session[1].total_duration = 0
        /\ session[1].kinematics = <<>>
        /\ session[1].actions = <<>>
        /\ DOMAIN session[1].dom_map = {}

\* C1 witness: process has returned for the empty list
Process_C1_Witness == ProcessFinished /\ events = <<>> /\ Len(session) = 1

\* the tag of a node is in the ignore set (tag names compared in lower case)
TagIgnored(node) ==
    Lower(Get(node, "tagName", <<>>)) \in
        { <<"s", "c", "r", "i", "p", "t">>, <<"s", "t", "y", "l", "e">>,
          <<"l", "i", "n", "k">>, <<"m", "e", "t", "a">>,
          <<"n", "o", "s", "c", "r", "i", "p", "t">> }

ChildrenOf(node) == Get(node, "childNodes", <<>>)

\* ids of the tagged nodes that are neither ignored nor below an ignored node
RECURSIVE KeptIds(_)
KeptIds(node) ==
    IF TagIgnored(node) THEN {}
    ELSE (IF Has(node, "id") /\ Has(node, "tagName") THEN {node.id} ELSE {})
             \cup UNION {KeptIds(ChildrenOf(node)[k]) : k \in 1..Len(ChildrenOf(node))}

\* ids of the nodes that are ignored or below an ignored node
RECURSIVE HiddenIds(_, _)
HiddenIds(node, below) ==
    LET hidden == below \/ TagIgnored(node)
    IN  (IF hidden /\ Has(node, "id") THEN {node.id} ELSE {})
            \cup UNION {HiddenIds(ChildrenOf(node)[k], hidden) : k \in 1..Len(ChildrenOf(node))}

\* the root nodes of the full snapshots the loop has consumed
ConsumedSnapshots ==
    {events[k].data.node : k \in {j \in 1..consumed : events[j].type = 2}}

ConsumedKeptIds == UNION {KeptIds(root) : root \in ConsumedSnapshots}

ConsumedHiddenIds == UNION {HiddenIds(root, FALSE) : root \in ConsumedSnapshots}

\* C10: whatever snapshots were consumed, the markup lookup has no entry for an
\* ignored node or a descendant of one, unless a kept node outside every
\* ignored subtree carries the same id; the returned session holds that lookup.
Process_C10_NoIgnoredSubtree ==
    /\ \A id \in ConsumedHiddenIds : id \in DOMAIN dom_map => id \in ConsumedKeptIds
    /\ DOMAIN dom_map \subseteq ConsumedKeptIds
    /\ ProcessFinished /\ events # <<>> => session[1].dom_map = dom_map

\* C10 witness: two snapshots were consumed; an id below an ignored node is
\* absent from the returned lookup and another one is present because a kept
\* node carries it.
Process_C10_Witness ==
    /\ ProcessFinished
    /\ Cardinality({k \in 1..Len(events) : events[k].type = 2}) >= 2
    /\ \E id \in ConsumedHiddenIds : id \notin DOMAIN session[1].dom_map
    /\ \E id \in ConsumedHiddenIds : id \in DOMAIN session[1].dom_map

-----------------------------------------------------------------------------
(* Properties of analyze_session *)

AnalyzeFinished == pc = "done" /\ endpoint = "analyze_session"

BoxAround(x, y) == [top |-> y - 25, left |-> x - 25, width |-> 50, height |-> 50]

\* C8: every insight of either detector carries the box left = x - 25,
\* top = y - 25, width = height = 50 of the point whose timestamp it carries:
\* the anchor click of the emitting step (rage clicks), the flagged kinematic
\* vector (motion).
Analyze_C8_BoundingBox ==
    /\ Len(insights) = Cardinality(EmittedSteps)
    /\ \A k \in 1..Len(insights) :
          LET a == clicks[steps[KthOf(EmittedSteps, k)].anchor + 1]
          IN  /\ insights[k].timestamp = a.timestamp
              /\ insights[k].boundingBox = BoxAround(a.x, a.y)
              /\ \E c \in 1..Len(InputClicks) :
                    /\ InputClicks[c].timestamp = a.timestamp
                    /\ InputX(InputClicks[c]) = a.x /\ InputY(InputClicks[c]) = a.y
    /\ Len(insights_ml) = Cardinality(flagged)
    /\ \A k \in 1..Len(insights_ml) :
          LET p == valid_points[KthOf(flagged, k) + 1]
          IN  /\ insights_ml[k].timestamp = p.timestamp
              /\ insights_ml[k].boundingBox = BoxAround(p.x, p.y)
              /\ \E v \in 1..Len(MotionInput) : MotionInput[v] = p
    /\ AnalyzeFinished =>
          \A k \in 1..Len(result[1]) :
              /\ result[1][k].boundingBox.width = 50
              /\ result[1][k].boundingBox.height = 50
              /\ \/ \E c \in 1..Len(clicks) :
                       /\ result[1][k].timestamp = clicks[c].timestamp
                       /\ result[1][k].boundingBox = BoxAround(clicks[c].x, clicks[c].y)
                 \/ \E v \in 1..Len(valid_points) :
                       /\ result[1][k].timestamp = valid_points[v].timestamp
                       /\ result[1][k].boundingBox = BoxAround(valid_points[v].x, valid_points[v].y)

\* C8 witness: the endpoint returned insights of both detectors
Analyze_C8_Witness ==
    /\ AnalyzeFinished
    /\ Len(insights_ml) >= 1
    /\ Len(insights) >= 1
    /\ Len(result[1]) = Len(insights_ml) + Len(insights)

\* C9 (as claimed): the list analyze_session returns is in chronological order.
Analyze_C9_Chronological ==
    AnalyzeFinished =>
        \A a \in 1..Len(result[1]), b \in 1..Len(result[1]) :
            a < b => result[1][a].timestamp <= result[1][b].timestamp

-----------------------------------------------------------------------------
(* Properties of process called on payloads with missing and null sub-fields *)

\* the second call of process on the list has returned to its caller
SecondReturned == pc = "done" /\ endpoint = "process" /\ previous # <<>>

\* C11: when process is called twice on the same list, the session the second
\* call returns is the session the first call returned (same start timestamp
\* and duration, same vectors and actions in the same order, same markup
\* lookup), and no step of either call changes the list.
Process_C11_Idempotent ==
    /\ [](SecondReturned => session = previous)
    /\ [][events' = events]_vars

\* C11 witness: the second call has returned and the session it returned, the
\* same as the first, has vectors, actions and markup entries.
Process_C11_Witness ==
    /\ SecondReturned
    /\ session = previous
    /\ session[1].kinematics # <<>>
    /\ session[1].actions # <<>>
    /\ DOMAIN session[1].dom_map # {}

\* C12 (as claimed): process does not abort on an event whose payload has
\* missing or null sub-fields (a tuple without or with null coordinates, an
\* absent or null positions array, a click without coordinates or target id,
\* an input without or with null text): the call never ends by raising, and
\* when it ends its caller has a session.
Process_C12_NeverAborts ==
    /\ pc # "raised"
    /\ ProcessFinished => Len(session) = 1

-----------------------------------------------------------------------------
(* Properties of detect_behavioral_anomalies *)

MotionFinished == pc = "done" /\ endpoint = "detect_behavioral_anomalies"

\* the feature loop is over and the outlier model has not labelled yet
FeaturesDone ==
    /\ endpoint = "detect_behavioral_anomalies"
    /\ pc = "ml_fit" \/ (pc = "ml_return" /\ flagged = {})

\* C14: called with fewer than 10 kinematic vectors, the detector never fits
\* the outlier model and the list it returns is empty.
Motion_C14_FewVectorsEmpty ==
    endpoint = "detect_behavioral_anomalies" /\ Len(kinematics) < 10 =>
        /\ pc # "ml_fit"
        /\ insights_ml = <<>>
        /\ MotionFinished => flagged = {}

\* C14 witness: the detector returned the empty list for 9 vectors of
\* increasing timestamps, which make 8 pairs with dt > 0.
Motion_C14_Witness ==
    /\ MotionFinished
    /\ Len(kinematics) = 9
    /\ \A k \in 1..8 : kinematics[k].timestamp < kinematics[k + 1].timestamp
    /\ insights_ml = <<>>

\* the events of the list that make an action, in list order: a Meta event
\* with a URL or a width, a click, an input
MakesAction(e) ==
    \/ /\ e.type = 4
       /\ \/ Has(e.data, "href") /\ e.data.href # <<>>
          \/ Has(e.data, "width") /\ e.data.width # 0
    \/ /\ e.type = 3
       /\ Has(e.data, "source")
       /\ \/ e.data.source = 2 /\ Has(e.data, "type") /\ e.data.type = 2
          \/ e.data.source = 5

ActionEvents == SelectSeq(events, MakesAction)

IsPointerMove(e) == e.type = 3 /\ Has(e.data, "source") /\ e.data.source = 1

\* the tuples of a pointer-move event that carry two coordinates, none negative
GoodTuple(pos) == Len(pos) >= 2 /\ pos[1] >= 0 /\ pos[2] >= 0

PositionsOf(e) == Get(e.data, "positions", <<>>)

GoodTuples(e) == SelectSeq(PositionsOf(e), GoodTuple)

\* one record per good tuple of the pointer-move events of the list, in list
\* order and in array order: the event's timestamp, the tuple's offset, x and y
RECURSIVE TuplesUpTo(_)
TuplesUpTo(k) ==
    IF k = 0 THEN <<>>
    ELSE TuplesUpTo(k - 1) \o
         (IF IsPointerMove(events[k])
          THEN LET good == GoodTuples(events[k])
               IN  [j \in 1..Len(good) |->
                       [at     |-> events[k].timestamp,
                        offset |-> IF Len(good[j]) >= 4 THEN good[j][4] ELSE 0,
                        x      |-> good[j][1],
                        y      |-> good[j][2]]]
          ELSE <<>>)

\* process returned a session for a list that is not empty
SessionReturned == ProcessFinished /\ previous = <<>> /\ events # <<>> /\ Len(session) = 1

\* C15: in the returned session the k-th action carries the timestamp of the
\* k-th action-making event minus the timestamp of the first event of the
\* list, and the k-th vector carries the timestamp of its pointer-move event
\* minus the timestamp of the first event, plus the offset of its tuple (0
\* for a tuple without one).
Process_C15_RelativeTimestamps ==
    SessionReturned =>
        LET s == session[1]
            t == TuplesUpTo(Len(events))
        IN  /\ Len(s.actions) = Len(ActionEvents)
            /\ \A k \in 1..Len(s.actions) :
                  s.actions[k].timestamp = ActionEvents[k].timestamp - events[1].timestamp
            /\ Len(s.kinematics) = Len(t)
            /\ \A k \in 1..Len(s.kinematics) :
                  s.kinematics[k].timestamp = (t[k].at - events[1].timestamp) + t[k].offset

\* C15 witness: a session with an action of an event later than the first,
\* a vector whose tuple has an offset and a vector whose tuple has none.
Process_C15_Witness ==
    /\ SessionReturned
    /\ \E k \in 1..Len(session[1].actions) : session[1].actions[k].timestamp > 0
    /\ \E k \in 1..Len(TuplesUpTo(Len(events))) :
          /\ TuplesUpTo(Len(events))[k].offset > 0
          /\ TuplesUpTo(Len(events))[k].at # events[1].timestamp
          /\ session[1].kinematics[k].timestamp =
                 TuplesUpTo(Len(events))[k].at - events[1].timestamp + TuplesUpTo(Len(events))[k].offset
    /\ \E e \in Range(events) :
          IsPointerMove(e) /\ \E p \in Range(GoodTuples(e)) : Len(p) < 4

\* the largest and the smallest timestamp of the list
MaxTimestamp == CHOOSE t \in {e.timestamp : e \in Range(events)} :
                    \A e \in Range(events) : e.timestamp <= t

MinTimestamp == CHOOSE t \in {e.timestamp : e \in Range(events)} :
                    \A e \in Range(events) : t <= e.timestamp

Process_C20_NonNegativeVectors ==
    SessionReturned =>
        LET s == session[1]
            t == TuplesUpTo(Len(events))
        IN  /\ Len(s.kinematics) = Len(t)
            /\ \A k \in 1..Len(s.kinematics) :
                  /\ s.kinematics[k].x = t[k].x /\ s.kinematics[k].y = t[k].y
                  /\ s.kinematics[k].x >= 0 /\ s.kinematics[k].y >= 0
            /\ (\A e \in Range(events) : ~IsPointerMove(e)) => s.kinematics = <<>>

\* C20 witness: the list has a pointer-move event with a tuple of negative x
\* and one with a tuple of negative y, each followed in its array by a tuple
\* that is in the session.
Process_C20_Witness ==
    /\ SessionReturned
    /\ \A c \in {1, 2} :
          \E e \in Range(events) :
              /\ IsPointerMove(e)
              /\ \E a \in 1..Len(PositionsOf(e)), b \in 1..Len(PositionsOf(e)) :
                    /\ a < b
                    /\ Len(PositionsOf(e)[a]) >= 2 /\ PositionsOf(e)[a][c] < 0
                    /\ GoodTuple(PositionsOf(e)[b])
                    /\ \E k \in 1..Len(session[1].kinematics) :
                          /\ session[1].kinematics[k].x = PositionsOf(e)[b][1]
                          /\ session[1].kinematics[k].y = PositionsOf(e)[b][2]

\* the list with its elements k and k + 1 exchanged
SwapAt(s, k) ==
    [j \in 1..Len(s) |-> IF j = k THEN s[k + 1] ELSE IF j = k + 1 THEN s[k] ELSE s[j]]

\* the points and the features the feature loop derives from a list
PointsFrom(kin) ==
    LET move_points == SortByTimestamp(kin)
        kept        == RetainedPairs(move_points)
    IN  [k \in 1..Cardinality(kept) |-> move_points[KthOf(kept, k) + 1]]

FeaturesFrom(kin) ==
    LET move_points == SortByTimestamp(kin)
        kept        == RetainedPairs(move_points)
    IN  [k \in 1..Cardinality(kept) |-> FeatureOf(move_points, KthOf(kept, k))]

\* C17 (as claimed): the features and their points do not depend on the order
\* of the list: the list with any two neighbours exchanged (exchanges of
\* neighbours make every permutation), vectors of one timestamp included,
\* gives the features and the points the detector derived.
Motion_C17_OrderIndependent ==
    FeaturesDone /\ Len(kinematics) >= 10 =>
        \A k \in 1..(Len(kinematics) - 1) :
            /\ PointsFrom(SwapAt(kinematics, k)) = valid_points
            /\ FeaturesFrom(SwapAt(kinematics, k)) = features

\* the angle of a direction is the angle of another: atan2 of the two are
\* equal (atan2(0, 0) is 0, the angle of <<1, 0>>)
AngleDir(d) == IF d = <<0, 0>> THEN <<1, 0>> ELSE d

SameAngle(d1, d2) ==
    LET a == AngleDir(d1)
        b == AngleDir(d2)
    IN  a[1] * b[2] - a[2] * b[1] = 0 /\ a[1] * b[1] + a[2] * b[2] > 0

\* delta_angle of a feature is 0: it was set to 0.0, or the two angles it
\* is the wrapped difference of are equal
DeltaAngleZero(f) == f.prev_dir = <<>> \/ SameAngle(f.dir, f.prev_dir)

\* C18 (as claimed): delta_angle is 0 for the first retained pair and, for
\* every later retained pair, the wrapped difference between the angle of
\* the pair and the angle of the retained pair before it.
Motion_C18_DeltaAngle ==
    FeaturesDone /\ features # <<>> =>
        /\ DeltaAngleZero(features[1])
        /\ \A k \in 2..Len(features) :
              /\ features[k].prev_dir # <<>>
              /\ SameAngle(features[k].prev_dir, features[k - 1].dir)

\* the positions k (from 2) of the sorted list whose vector is later than
\* the vector before it
LaterThanBefore(sorted) ==
    {k \in 2..Len(sorted) : sorted[k].timestamp > sorted[k - 1].timestamp}

\* C19: for a list of 10 vectors or more, sorted by timestamp, the features
\* are one per consecutive pair (p[i-1], p[i]) with p[i] later than p[i-1],
\* in order, each associated with its p[i] and computed from its pair; a
\* pair of equal timestamps gives no feature, and the call goes on.
Motion_C19_OneFeaturePerLaterPair ==
    FeaturesDone /\ Len(kinematics) >= 10 =>
        LET p    == SortByTimestamp(kinematics)
            late == LaterThanBefore(p)
        IN  /\ Len(features) = Cardinality(late)
            /\ Len(valid_points) = Cardinality(late)
            /\ \A j \in 1..Len(features) :
                  LET k == KthOf(late, j)
                  IN  /\ valid_points[j] = p[k]
                      /\ features[j].dt_ms = p[k].timestamp - p[k - 1].timestamp
                      /\ features[j].dt_ms > 0
                      /\ features[j].dir = <<p[k].x - p[k - 1].x, p[k].y - p[k - 1].y>>
                      /\ features[j].dist2 = SquaredDistance(p[k - 1].x, p[k - 1].y, p[k].x, p[k].y)

\* C19 witness: the sorted list has pairs of equal timestamps, one of them a
\* run of three vectors, and the features are fewer than the pairs.
Motion_C19_Witness ==
    /\ FeaturesDone
    /\ Len(kinematics) >= 10
    /\ \E k \in 2..(Len(kinematics) - 1) :
          LET p == SortByTimestamp(kinematics)
          IN  p[k - 1].timestamp = p[k].timestamp /\ p[k].timestamp = p[k + 1].timestamp
    /\ Len(features) >= 2
    /\ Len(features) < Len(kinematics) - 1

-----------------------------------------------------------------------------
(* Properties of calls in progress at once *)

\* the buckets of a call of process that runs alone, after k events
RECURSIVE BucketsAlone(_, _)
BucketsAlone(evs, k) ==
    IF k = 0 THEN [kinematics |-> <<>>, actions |-> <<>>, dom_map |-> <<>>]
    ELSE ProcessEvent(BucketsAlone(evs, k - 1), evs[k], evs[1].timestamp)

\* the session a call of process returns when it runs alone
SessionAlone(evs) ==
    IF evs = <<>> THEN ProcessedSession(0, 0, <<>>, <<>>, <<>>)
    ELSE LET st == BucketsAlone(evs, Len(evs))
         IN  ProcessedSession(evs[1].timestamp,
                              evs[Len(evs)].timestamp - evs[1].timestamp,
                              st.kinematics, st.actions, st.dom_map)

\* the insights of the scan of a click list from a cursor, run alone
RECURSIVE ScanAlone(_, _)
ScanAlone(cs, cur) ==
    IF ~(cur < Len(cs) - 2) THEN <<>>
    ELSE LET cluster == ScanCluster(cs, <<cur>>, cur + 1)
         IN  (IF Len(cluster) >= 3 THEN <<RageInsight(cs[cur + 1])>> ELSE <<>>)
                 \o ScanAlone(cs, NextCursor(cur, cluster))

\* the list a call of detect_rage_clicks returns when it runs alone
RageAlone(evs) ==
    LET cs == FilterClicks(evs)
    IN  IF Len(cs) < 3 THEN <<>> ELSE ScanAlone(SortByTimestamp(cs), 0)

\* a call that has returned has what it returns when it runs alone; for the
\* motion detector, whose outlier model is not modelled: the features and
\* points of its own list, and the insights of the rows labelled -1
AsAlone(f) ==
    f.pc = "done" =>
        IF f.endpoint = "process"
        THEN f.session = <<SessionAlone(f.events)>>
        ELSE IF f.endpoint = "detect_rage_clicks"
        THEN f.insights = RageAlone(f.events)
        ELSE IF Len(f.kinematics) < 10
        THEN f.insights_ml = <<>>
        ELSE /\ f.valid_points = PointsFrom(f.kinematics)
             /\ f.features = FeaturesFrom(f.kinematics)
             /\ f.insights_ml = InsightsOf(PointsFrom(f.kinematics), f.flagged, 0)

\* C13: two calls of independent sessions, each of process or of a detector,
\* interleaved in any way at the steps of their loops: each returns what the
\* same call returns alone.
Concurrent_C13_AsAlone ==
    peer # <<>> => AsAlone(Locals) /\ AsAlone(peer[1])

\* C13 witness: a call of process has returned a session with a click on an
\* element of its own markup lookup while another call of process, on another
\* list, is suspended in its loop with markup entries of its own.
Concurrent_C13_Witness ==
    /\ peer # <<>>
    /\ endpoint = "process" /\ pc = "done"
    /\ DOMAIN session[1].dom_map # {}
    /\ session[1].actions # <<>>
    /\ peer[1].endpoint = "process" /\ peer[1].pc = "process_loop"
    /\ peer[1].consumed = 1 /\ Len(peer[1].events) = 2
    /\ DOMAIN peer[1].dom_map # {}
    /\ peer[1].dom_map # session[1].dom_map

-----------------------------------------------------------------------------
(* Inputs of process: streams of snapshots, Meta events and clicks *)

MaxStreamEvents == 3

\* document 1 > div 2 > ( button 5 > text "ok" , span 4 )
FirstPage ==
    Document(1, <<
        Element(2, <<"d", "i", "v">>, <<>>, <<
            Element(5, <<"b", "u", "t", "t", "o", "n">>, <<>>, << TextNode(9, <<"o", "k">>) >>),
            Element(4, <<"s", "p", "a", "n">>, <<>>, <<>>) >>) >>)

\* document 1 > button 5 > text "go": node 5 with another text, nodes 2 and 4
\* no longer there
SecondPage ==
    Document(1, <<
        Element(5, <<"b", "u", "t", "t", "o", "n">>, <<>>, << TextNode(9, <<"g", "o">>) >>) >>)

\* a text of k letters
Letters(k) == [j \in 1..k |-> LowerCase[((j - 1) % 26) + 1]]

\* document 1 > p 6 > text of k letters
Paragraph(k) ==
    Document(1, << Element(6, <<"p">>, <<>>, << TextNode(7, Letters(k)) >>) >>)

\* document 1 > p 6 > ( text " ab " , text "cd" )
TwoTexts ==
    Document(1, << Element(6, <<"p">>, <<>>,
                           << TextNode(7, <<" ", "a", "b", " ">>), TextNode(8, <<"c", "d">>) >>) >>)

\* a Meta event with a URL and a viewport, as the recorder sends it
PageEvent(href, width, height, t) ==
    [type |-> 4, timestamp |-> t, data |-> [href |-> href, width |-> width, height |-> height]]

\* a Meta event with a width and no height
WidthEvent(width, t) == [type |-> 4, timestamp |-> t, data |-> [width |-> width]]

\* a Meta event with neither a URL nor a width
TitleEvent(t) == [type |-> 4, timestamp |-> t, data |-> [title |-> <<"t">>]]

StreamUniverse ==
    { SnapshotEvent(FirstPage, 1000),
      SnapshotEvent(SecondPage, 1300),
      SnapshotEvent(Paragraph(TEXT_MAX_LEN), 1000),
      SnapshotEvent(Paragraph(TEXT_MAX_LEN + 1), 1000),
      SnapshotEvent(TwoTexts, 1100),
      PageEvent(<<"/", "a">>, 800, 600, 1000),
      PageEvent(<<>>, 1024, 768, 1200),
      ResizeEvent(800, 600, 1100),
      ResizeEvent(0, 600, 1100),
      WidthEvent(800, 1200),
      TitleEvent(1100),
      TargetClickEvent(5, 12, 34, 1200),
      TargetClickEvent(4, 1, 2, 1400),
      BareClickEvent(1100) }

StreamInputs == SeqsUpTo(StreamUniverse, MaxStreamEvents)

InitStream ==
    /\ endpoint = "process"
    /\ events \in StreamInputs
    /\ pc = "process_start"
    /\ ProcIdle /\ MotionIdle /\ RageIdle
    /\ result = <<>>
    /\ SingleCall
    /\ WorkerIdle

SpecStream == InitStream /\ [][NextProcess]_vars

-----------------------------------------------------------------------------
(* Properties of process on streams *)

\* a call of process is in its pass over the list or past it
InPass == endpoint = "process" /\ pc \in {"process_loop", "process_return", "done"}

IsSnapshot(e) == e.type = 2 /\ Has(e.data, "node")

IsClick(e) ==
    /\ e.type = 3 /\ Has(e.data, "source") /\ e.data.source = 2
    /\ Has(e.data, "type") /\ e.data.type = 2

\* the entries one snapshot emits, walked on its own
EmittedBy(e) == FlattenDomTree(e.data.node, <<>>)

\* the snapshots among the first k events that emit the id
EmittersUpTo(id, k) == {j \in 1..k : IsSnapshot(events[j]) /\ id \in DOMAIN EmittedBy(events[j])}

\* the last of them
LastEmitter(id, k) == CHOOSE j \in EmittersUpTo(id, k) : \A m \in EmittersUpTo(id, k) : m <= j

\* the position, among the actions, of the action that event j makes
ActionIndex(j) == Len(SelectSeq(SubSeq(events, 1, j), MakesAction))

Sentinel == <<"u", "n", "k", "n", "o", "w", "n", "_", "e", "l", "e", "m", "e", "n", "t">>

\* the serialization a click at position j finds: the one the last snapshot
\* before j that emitted the target made, or the sentinel
TargetMarkupAt(j) ==
    LET d == events[j].data
    IN  IF Has(d, "id") /\ EmittersUpTo(d.id, j - 1) # {}
        THEN EmittedBy(events[LastEmitter(d.id, j - 1)])[d.id]
        ELSE Sentinel

Coord(d, k) == IF Has(d, k) THEN IntStr(d[k]) ELSE NoneStr

ClickDetails(j) ==
    <<"E", "l", "e", "m", "e", "n", "t", ":", " ">> \o TargetMarkupAt(j)
        \o <<" ", "|", " ", "C", "o", "o", "r", "d", "s", ":", " ", "(">>
        \o Coord(events[j].data, "x") \o <<",", " ">> \o Coord(events[j].data, "y") \o <<")">>

\* C21: at every point of the pass, the action of each click already consumed
\* carries the serialization of its target as the snapshots before the click
\* in the list made it (the sentinel when none of them emitted the target),
\* whatever snapshots were consumed after the click
Process_C21_ClickSeesEarlierSnapshots ==
    InPass =>
        \A j \in 1..consumed :
            IsClick(events[j]) =>
                /\ ActionIndex(j) <= Len(actions)
                /\ actions[ActionIndex(j)].action_type = "click"
                /\ actions[ActionIndex(j)].details = Some(ClickDetails(j))

\* a click whose target an earlier snapshot emitted, followed by a snapshot
\* that emits the target with another serialization, all consumed
Process_C21_Witness ==
    /\ InPass /\ pc = "done"
    /\ \E j \in 1..Len(events) :
          /\ IsClick(events[j]) /\ Has(events[j].data, "id")
          /\ EmittersUpTo(events[j].data.id, j - 1) # {}
          /\ events[j].data.id \in DOMAIN dom_map
          /\ dom_map[events[j].data.id] # TargetMarkupAt(j)
          /\ actions[ActionIndex(j)].details = Some(ClickDetails(j))

\* the snapshots among the first k events
SnapshotsUpTo(k) == {j \in 1..k : IsSnapshot(events[j])}

\* C22: at every point of the pass the lookup holds exactly the ids that the
\* snapshots consumed so far emitted, each with the serialization made by the
\* last of these snapshots that emitted it; an id that only an earlier
\* snapshot emitted keeps the entry of that snapshot
Process_C22_LastSnapshotWins ==
    InPass =>
        /\ DOMAIN dom_map = UNION {DOMAIN EmittedBy(events[j]) : j \in SnapshotsUpTo(consumed)}
        /\ \A id \in DOMAIN dom_map :
              dom_map[id] = EmittedBy(events[LastEmitter(id, consumed)])[id]

\* two snapshots consumed, the later one with another serialization of one
\* id of the earlier one and without another id of the earlier one
Process_C22_Witness ==
    /\ InPass /\ pc = "done"
    /\ \E j, k \in SnapshotsUpTo(Len(events)) :
          /\ j < k
          /\ \E id \in DOMAIN EmittedBy(events[j]) \cap DOMAIN EmittedBy(events[k]) :
                /\ EmittedBy(events[j])[id] # EmittedBy(events[k])[id]
                /\ dom_map[id] = EmittedBy(events[k])[id]
          /\ \E id \in DOMAIN EmittedBy(events[j]) \ DOMAIN EmittedBy(events[k]) :
                dom_map[id] = EmittedBy(events[j])[id]

IsMeta(e) == e.type = 4

\* the Meta event carries a navigation target: a URL that is not empty
CarriesTarget(d) == Has(d, "href") /\ d.href # <<>>

\* the Meta event carries a viewport width: a width that is not zero
CarriesWidth(d) == Has(d, "width") /\ d.width # 0

\* the actions a Meta event is to yield, at the timestamp t
MetaYield(d, t) ==
    IF CarriesTarget(d)
    THEN <<UserAction(t, "navigation", None, Some(<<"U", "R", "L", ":", " ">> \o d.href))>>
    ELSE IF CarriesWidth(d)
         THEN <<UserAction(t, "resize", None,
                           Some(<<"V", "i", "e", "w", "p", "o", "r", "t", ":", " ">>
                                    \o IntStr(d.width) \o <<"x">> \o Coord(d, "height")))>>
         ELSE <<>>

\* C23: the step of the pass that consumes a Meta event appends to the
\* actions one navigation action "URL: <target>" when the event carries a
\* target (with or without a width), otherwise one resize action
\* "Viewport: <w>x<h>" when it carries a width (<h> reads None when the event
\* has no height), otherwise nothing
Process_C23_MetaYieldsAtMostOne ==
    [][ ( /\ endpoint = "process" /\ pc = "process_loop"
          /\ consumed' = consumed + 1
          /\ IsMeta(events[consumed + 1]) )
        => actions' = actions \o MetaYield(events[consumed + 1].data,
                                           events[consumed + 1].timestamp - events[1].timestamp) ]_vars

\* a pass over a Meta event with a target and a width, one with a width only
\* and one with neither: a navigation action, a resize action and nothing
Process_C23_Witness ==
    /\ InPass /\ pc = "done" /\ Len(actions) = 2
    /\ \E j, k, l \in 1..Len(events) :
          /\ IsMeta(events[j]) /\ IsMeta(events[k]) /\ IsMeta(events[l])
          /\ CarriesTarget(events[j].data) /\ CarriesWidth(events[j].data)
          /\ ~CarriesTarget(events[k].data) /\ CarriesWidth(events[k].data)
          /\ ~CarriesTarget(events[l].data) /\ ~CarriesWidth(events[l].data)
          /\ actions[ActionIndex(j)].action_type = "navigation"
          /\ actions[ActionIndex(k)].action_type = "resize"

\* the nodes the walk of a tree enters, in walk order
RECURSIVE EnteredNodes(_)
RECURSIVE EnteredBelow(_)
EnteredNodes(node) ==
    IF TagIgnored(node) THEN <<>>
    ELSE (IF IsEntered(node) THEN <<node>> ELSE <<>>) \o EnteredBelow(ChildrenOf(node))

EnteredBelow(children) ==
    IF children = <<>> THEN <<>>
    ELSE EnteredNodes(children[1]) \o EnteredBelow(Tail(children))

\* the last node with the id that the walk of the tree enters
LastNode(root, id) ==
    LET nodes == SelectSeq(EnteredNodes(root), LAMBDA nd : nd.id = id)
    IN  nodes[Len(nodes)]

IsText(child) == Has(child, "type") /\ child.type = 3 /\ Strip(Get(child, "textContent", <<>>)) # <<>>

\* the inline text of a node: the texts of its immediate text-node children,
\* each without the whitespace around it, one space between two of them
RECURSIVE JoinTexts(_)
JoinTexts(texts) ==
    IF texts = <<>> THEN <<>>
    ELSE IF Len(texts) = 1 THEN Strip(texts[1].textContent)
    ELSE Strip(texts[1].textContent) \o <<" ">> \o JoinTexts(Tail(texts))

InlineText(node) == JoinTexts(SelectSeq(ChildrenOf(node), IsText))

\* the inline text as it is to be emitted
EmittedText(text) ==
    IF Len(text) <= TEXT_MAX_LEN THEN text ELSE Prefix(text, TEXT_MAX_LEN) \o Ellipsis

\* C24: at every point of the pass, the entry of an id is the opening tag of
\* its node, the node's inline text, unchanged when it has at most 30
\* characters and cut to its first 30 characters plus "..." when it has more,
\* and the closing tag
Process_C24_TextUpTo30Unchanged ==
    InPass =>
        \A id \in DOMAIN dom_map :
            LET node == LastNode(events[LastEmitter(id, consumed)].data.node, id)
                tag  == Lower(node.tagName)
            IN  dom_map[id] = <<"<">> \o tag \o AttrsStr(Get(node, "attributes", <<>>)) \o <<">">>
                                  \o EmittedText(InlineText(node))
                                  \o <<"<", "/">> \o tag \o <<">">>

-----------------------------------------------------------------------------
(* worker_io.py : the queue worker, the broker it consumes from and the
   bucket it uploads to *)

MaxMessages == 3

\* line 210: 'x-delivery-limit', the number of times the broker puts a
\* message back on the queue before it drops it
DELIVERY_LIMIT == 5

\* line 223: message.process() is called with no argument; its argument
\* requeue, which says whether a message rejected on an exception goes back
\* to the queue, is False unless given
PROCESS_REQUEUE == FALSE

\* line 117
ObjectKey(user_id, session_uuid) ==
    <<"s", "e", "s", "s", "i", "o", "n", "s", "/">> \o user_id \o <<"/">> \o session_uuid
        \o <<".", "j", "s", "o", "n">>

\* lines 99-144: the bucket after upload_session and the value it returns;
\* put_ok says whether the client and put_object raised nothing
UploadSession(bucket, user_id, session_uuid, session_data, put_ok) ==
    [garage  |-> IF put_ok THEN MapPut(bucket, ObjectKey(user_id, session_uuid), session_data)
                 ELSE bucket,
     success |-> put_ok]

\* a body is JSON text of an object, body.data, or text that is not JSON
\* lines 226-227: json.loads raises JSONDecodeError on the latter
JsonLoads(body) == IF body.json THEN Some(body.data) ELSE None

\* line 238: if not user_id or not session_uuid
IsInvalid(message_data) ==
    \/ Get(message_data, "user_id", <<>>) = <<>>
    \/ Get(message_data, "session_uuid", <<>>) = <<>>

\* the queue after the broker takes a message back: at its head, one
\* delivery later, unless the message is at its delivery limit
Requeued(q, m) ==
    IF m.delivery_count < DELIVERY_LIMIT
    THEN <<[m EXCEPT !.delivery_count = @ + 1]>> \o q
    ELSE q

\* line 223, on leaving the block of message.process(): an ack when the block
\* ended without an exception (a return ends it so), otherwise a reject
Settle(raised) == IF raised THEN "reject" ELSE "ack"

\* the queue after the reject of message.process()
Rejected(q, m) == IF PROCESS_REQUEUE THEN Requeued(q, m) ELSE q

\* lines 307-308: the iterator hands over the next message of the queue;
\* with prefetch_count=1 (line 203) one message is out at a time
Deliver ==
    /\ endpoint = "worker_io"
    /\ pc = "consume"
    /\ queue # <<>>
    /\ incoming' = <<Head(queue)>>
    /\ queue' = Tail(queue)
    /\ pc' = "process_message"
    /\ UNCHANGED <<endpoint, events, callVars, procVars, mlVars, rageVars, result, garage, handled>>

\* lines 216-283 and 313-321: _process_message on the delivered message, up
\* to the continue of the consuming loop
ProcessMessage ==
    /\ endpoint = "worker_io"
    /\ pc = "process_message"
    /\ \E put_ok \in BOOLEAN :
          LET m            == incoming[1]
              message_data == JsonLoads(m.body)
              decoded      == message_data # None
              invalid      == decoded /\ IsInvalid(message_data[1])
              uploads      == decoded /\ ~invalid
              upload       == UploadSession(garage, message_data[1].user_id,
                                            message_data[1].session_uuid,
                                            message_data[1], put_ok)
              raised       == ~decoded \/ (uploads /\ ~upload.success)
          IN  /\ (~uploads => put_ok)
              /\ garage' = IF uploads THEN upload.garage ELSE garage
              /\ queue' = IF raised THEN Rejected(queue, m) ELSE queue
              /\ handled' = Append(handled,
                                   [message_id |-> m.message_id,
                                    body       |-> m.body,
                                    upload     |-> IF ~uploads THEN "none"
                                                   ELSE IF upload.success THEN "succeeded"
                                                   ELSE "failed",
                                    settled    |-> Settle(raised)])
    /\ incoming' = <<>>
    /\ pc' = "consume"
    /\ UNCHANGED <<endpoint, events, callVars, procVars, mlVars, rageVars, result>>

\* lines 174-181, 289-294: the connection closes while a message is out and
\* not settled; the broker takes the message back and the robust connection
\* consumes again
ConnectionLost ==
    /\ endpoint = "worker_io"
    /\ pc = "process_message"
    /\ queue' = Requeued(queue, incoming[1])
    /\ incoming' = <<>>
    /\ pc' = "consume"
    /\ UNCHANGED <<endpoint, events, callVars, procVars, mlVars, rageVars, result, garage, handled>>

-----------------------------------------------------------------------------
(* Inputs of the worker *)

\* the body the producer sends for a session
SessionBody(user_id, session_uuid) ==
    [json |-> TRUE, data |-> [user_id |-> user_id, session_uuid |-> session_uuid]]

\* a JSON object without user_id
NoUserBody(session_uuid) == [json |-> TRUE, data |-> [session_uuid |-> session_uuid]]

\* text that is not JSON
NotJsonBody == [json |-> FALSE]

BodyUniverse ==
    { SessionBody(<<"u">>, <<"a">>),
      SessionBody(<<"u">>, <<"b">>),
      SessionBody(<<"u">>, <<>>),
      NoUserBody(<<"a">>),
      NotJsonBody }

\* the queue at the start: message k is the k-th one published
WorkerInputs ==
    { [k \in 1..Len(bodies) |-> [message_id |-> k, body |-> bodies[k], delivery_count |-> 0]] :
          bodies \in SeqsUpTo(BodyUniverse, MaxMessages) }

InitWorker ==
    /\ endpoint = "worker_io"
    /\ events = <<>>
    /\ pc = "consume"
    /\ ProcIdle /\ MotionIdle /\ RageIdle
    /\ result = <<>>
    /\ SingleCall
    /\ queue \in WorkerInputs
    /\ incoming = <<>>
    /\ garage = <<>>
    /\ handled = <<>>

NextWorker == Deliver \/ ProcessMessage \/ ConnectionLost

SpecWorker == InitWorker /\ [][NextWorker]_vars

-----------------------------------------------------------------------------
(* Properties of the worker *)

\* C25: every run of _process_message that acknowledged its message had
\* uploaded the session of that message with success before
Worker_C25_AckOnlyAfterUpload ==
    \A k \in 1..Len(handled) :
        handled[k].settled = "ack" => handled[k].upload = "succeeded"

\* the message is at the broker: on the queue, or out and not settled
AtBroker(id) ==
    \/ \E k \in 1..Len(queue) : queue[k].message_id = id
    \/ incoming # <<>> /\ incoming[1].message_id = id

\* C26: a message whose upload failed was not acknowledged and is at the
\* broker for another delivery, or was handled again since
Worker_C26_FailedUploadDeliveredAgain ==
    \A k \in 1..Len(handled) :
        handled[k].upload = "failed" =>
            /\ handled[k].settled # "ack"
            /\ \/ AtBroker(handled[k].message_id)
               \/ \E l \in (k + 1)..Len(handled) : handled[l].message_id = handled[k].message_id

-----------------------------------------------------------------------------
(* Properties of the scan as a loop *)

\* C27: the scan of n clicks ends: every step moves the cursor forward, by
\* at least 3 when it emits a cluster and by exactly 1 when it does not, each
\* step starts where the one before stopped, and the cursor never passes n;
\* so there are never more than n - 2 steps (none when n < 3), never more
\* than floor(n / 3) insights, and the insights are in non-decreasing order
\* of timestamp
Rage_C27_ScanTerminates ==
    endpoint = "detect_rage_clicks" =>
        /\ \A k \in 1..Len(steps) :
              /\ steps[k].anchor = (IF k = 1 THEN 0 ELSE steps[k - 1].next)
              /\ IF steps[k].emitted
                 THEN steps[k].next >= steps[k].anchor + 3
                 ELSE steps[k].next = steps[k].anchor + 1
        /\ i = (IF steps = <<>> THEN 0 ELSE steps[Len(steps)].next)
        /\ i <= Len(clicks)
        /\ Len(steps) <= (IF Len(clicks) < 3 THEN 0 ELSE Len(clicks) - 2)
        /\ Len(insights) <= Len(clicks) \div 3
        /\ \A k \in 1..(Len(insights) - 1) : insights[k].timestamp <= insights[k + 1].timestamp

\* a finished scan of at least four clicks with a step that emitted and a
\* step that did not, and as many insights as floor(n / 3) allows
Rage_C27_Witness ==
    /\ RageFinished
    /\ Len(clicks) >= 4
    /\ \E k \in 1..Len(steps) : steps[k].emitted
    /\ \E k \in 1..Len(steps) : ~steps[k].emitted
    /\ Len(insights) = Len(clicks) \div 3

-----------------------------------------------------------------------------
(* Properties of process on lists in time order *)

\* the timestamps of the list never go down
InTimeOrder == \A k \in 1..(Len(events) - 1) : events[k].timestamp <= events[k + 1].timestamp

\* C28: for a list in time order, the returned session has a duration that
\* is not negative, its actions carry timestamps from 0 to the duration that
\* never go down along the sequence, and the actions are, one for one and in
\* list order, those of the events that make an action, so that no event has
\* more than one
Process_C28_ActionsWithinDuration ==
    (ProcessFinished /\ previous = <<>> /\ Len(session) = 1 /\ InTimeOrder) =>
        LET s == session[1]
        IN  /\ s.total_duration >= 0
            /\ \A k \in 1..Len(s.actions) :
                  /\ 0 <= s.actions[k].timestamp
                  /\ s.actions[k].timestamp <= s.total_duration
            /\ \A k \in 1..(Len(s.actions) - 1) :
                  s.actions[k].timestamp <= s.actions[k + 1].timestamp
            /\ Len(s.actions) = Len(ActionEvents)
            /\ Len(s.actions) <= Len(events)
            /\ \A k \in 1..Len(s.actions) :
                  s.actions[k].timestamp = ActionEvents[k].timestamp - events[1].timestamp

\* a list in time order over more than one timestamp, with an event that
\* makes no action between two that make one each
Process_C28_Witness ==
    /\ ProcessFinished /\ previous = <<>> /\ Len(session) = 1 /\ InTimeOrder
    /\ Len(events) = 3
    /\ MakesAction(events[1]) /\ ~MakesAction(events[2]) /\ MakesAction(events[3])
    /\ events[1].timestamp < events[2].timestamp
    /\ events[2].timestamp < events[3].timestamp
    /\ Len(session[1].actions) = 2
    /\ session[1].actions[2].timestamp = session[1].total_duration

-----------------------------------------------------------------------------
(* Properties of the time bases of the insights *)

\* the timestamp of the first event of the list
FirstEventTime == events[1].timestamp

\* C29: in the list analyze_session returns, a motion insight carries, for
\* some tuple of a pointer-move event of the list, the timestamp of the
\* event minus the timestamp T of the first event plus the offset of the
\* tuple, and a rage insight carries the timestamp of a click event of the
\* list as it is, not reduced by T
Analyze_C29_TwoTimeBases ==
    AnalyzeFinished =>
        \A k \in 1..Len(result[1]) :
            LET r == result[1][k]
            IN  IF r.algorithm = "IsolationForest"
                THEN \E j \in 1..Len(events) :
                        /\ IsPointerMove(events[j])
                        /\ \E q \in 1..Len(GoodTuples(events[j])) :
                              LET pos == GoodTuples(events[j])[q]
                              IN  /\ r.timestamp = events[j].timestamp - FirstEventTime
                                                       + (IF Len(pos) >= 4 THEN pos[4] ELSE 0)
                                  /\ r.boundingBox = BoxAround(pos[1], pos[2])
                ELSE /\ r.algorithm = "RuleBased"
                     /\ \E j \in 1..Len(events) :
                           /\ InputIsClick(events[j])
                           /\ r.timestamp = events[j].timestamp
                           /\ r.boundingBox = BoxAround(InputX(events[j]), InputY(events[j]))

\* a returned list with a motion insight and a rage insight of one instant
\* of a session that does not start at 0: the two timestamps differ by T
Analyze_C29_Witness ==
    /\ AnalyzeFinished
    /\ events # <<>>
    /\ FirstEventTime # 0
    /\ \E a, b \in 1..Len(result[1]) :
          /\ result[1][a].algorithm = "IsolationForest"
          /\ result[1][b].algorithm = "RuleBased"
          /\ result[1][b].timestamp - result[1][a].timestamp = FirstEventTime

-----------------------------------------------------------------------------
(* Properties of the motion insights under any labelling *)

\* C30: whatever rows the outlier model labels, each insight of the motion
\* detector carries the timestamp and the box of a vector of the input that
\* has a vector of strictly smaller timestamp in the input; no insight
\* carries the smallest timestamp of the input; the insights are no more
\* than the retained pairs, which are fewer than the vectors; and the
\* timestamps of the insights never go down along the list
Motion_C30_InsightsFromLaterVectors ==
    endpoint = "detect_behavioral_anomalies" =>
        /\ \A k \in 1..Len(insights_ml) :
              /\ \E v \in 1..Len(kinematics) :
                    /\ insights_ml[k].timestamp = kinematics[v].timestamp
                    /\ insights_ml[k].boundingBox = BoxAround(kinematics[v].x, kinematics[v].y)
                    /\ \E u \in 1..Len(kinematics) :
                          kinematics[u].timestamp < kinematics[v].timestamp
              /\ \E u \in 1..Len(kinematics) :
                    kinematics[u].timestamp < insights_ml[k].timestamp
        /\ Len(insights_ml) <= Cardinality(LaterThanBefore(SortByTimestamp(kinematics)))
        /\ kinematics # <<>> => Len(insights_ml) < Len(kinematics)
        /\ \A k \in 1..(Len(insights_ml) - 1) :
              insights_ml[k].timestamp <= insights_ml[k + 1].timestamp

\* the detector returned two insights for a list given latest vector first,
\* in which the earliest timestamp is the timestamp of two vectors
Motion_C30_Witness ==
    /\ MotionFinished
    /\ Len(insights_ml) = 2
    /\ kinematics[1].timestamp > kinematics[Len(kinematics)].timestamp
    /\ \E u, v \in 1..Len(kinematics) :
          /\ u # v
          /\ kinematics[u].timestamp = kinematics[v].timestamp
          /\ \A w \in 1..Len(kinematics) : kinematics[u].timestamp <= kinematics[w].timestamp

====
